---- MODULE Spec2Model ----
(***************************************************************************)
(* A model of the groundwater assistant of frontend/chatbot.py: the CSV    *)
(* loader, the entity extractor, the intent router and the query handlers  *)
(* of class GroundwaterChatbot.                                            *)
(*                                                                         *)
(* Text is a sequence of one-character strings, so that Python's substring *)
(* test, str.lower, sorted() and the three regular expressions of          *)
(* extract_entities are computed character by character.                   *)
(***************************************************************************)
EXTENDS Integers, Sequences, FiniteSets, TLC

----------------------------------------------------------------------------
(* Characters.  Alphabet lists the characters of the model in code-point    *)
(* order, which is the order Python compares strings by.                    *)

Alphabet ==
    << " ", "!", "'", ",", "-", ".",
       "0", "1", "2", "3", "4", "5", "6", "7", "8", "9", "?",
       "A", "B", "C", "D", "E", "F", "G", "H", "I", "J", "K", "L", "M",
       "N", "O", "P", "Q", "R", "S", "T", "U", "V", "W", "X", "Y", "Z", "_",
       "a", "b", "c", "d", "e", "f", "g", "h", "i", "j", "k", "l", "m",
       "n", "o", "p", "q", "r", "s", "t", "u", "v", "w", "x", "y", "z" >>

CharSet == { Alphabet[i] : i \in 1..Len(Alphabet) }

OrdOf == [ c \in CharSet |-> CHOOSE i \in 1..Len(Alphabet) : Alphabet[i] = c ]

Digits == { "0", "1", "2", "3", "4", "5", "6", "7", "8", "9" }

DigitVal == [ c \in Digits |-> OrdOf[c] - OrdOf["0"] ]

UpperCase == { c \in CharSet : OrdOf[c] >= OrdOf["A"] /\ OrdOf[c] <= OrdOf["Z"] }

LowerCase == { c \in CharSet : OrdOf[c] >= OrdOf["a"] /\ OrdOf[c] <= OrdOf["z"] }

\* \w of the re module: letters, digits and the underscore.
IsWordChar(c) == c \in UpperCase \cup LowerCase \cup Digits \cup {"_"}

LowerOf ==
    [ c \in CharSet |->
        IF c \in UpperCase THEN Alphabet[OrdOf[c] + (OrdOf["a"] - OrdOf["A"])] ELSE c ]

\* str.lower()
Lower(s) == [ i \in 1..Len(s) |-> LowerOf[s[i]] ]

\* str.strip(): leading and trailing blanks removed.
RECURSIVE LStrip(_)
LStrip(s) == IF s # <<>> /\ Head(s) = " " THEN LStrip(Tail(s)) ELSE s

RECURSIVE RStrip(_)
RStrip(s) ==
    IF s # <<>> /\ s[Len(s)] = " " THEN RStrip(SubSeq(s, 1, Len(s) - 1)) ELSE s

Strip(s) == RStrip(LStrip(s))

\* Python's "needle in hay" for two strings.
Contains(hay, needle) ==
    \E i \in 1..(Len(hay) - Len(needle) + 1) :
        \A k \in 1..Len(needle) : hay[i + k - 1] = needle[k]

\* any(word in text for word in words)
\* Were a key word to count only as a whole word of the text.
AnyIn_WholeWords(words, text) ==
    \E k \in 1..Len(words) :
        \E i \in 1..(Len(text) - Len(words[k]) + 1) :
            /\ SubSeq(text, i, i + Len(words[k]) - 1) = words[k]
            /\ (i = 1 \/ text[i - 1] = " ")
            /\ (i + Len(words[k]) - 1 = Len(text) \/ text[i + Len(words[k])] \in { " ", "!", "?", "," })

AnyIn(words, text) == \E k \in 1..Len(words) : Contains(text, words[k])

\* Python's a < b for two strings: by code point, a proper prefix first.
RECURSIVE StrLess(_, _)
StrLess(a, b) ==
    IF b = <<>> THEN FALSE
    ELSE IF a = <<>> THEN TRUE
    ELSE IF Head(a) = Head(b) THEN StrLess(Tail(a), Tail(b))
    ELSE OrdOf[Head(a)] < OrdOf[Head(b)]

\* sorted() of the distinct strings of a set.
RECURSIVE SortedStrings(_)
SortedStrings(S) ==
    IF S = {} THEN <<>>
    ELSE LET m == CHOOSE x \in S : \A y \in S \ {x} : StrLess(x, y)
         IN  <<m>> \o SortedStrings(S \ {m})

YearRangeLow == 2000

YearRangeHigh == 2030

\* Python's None for an optional string, and for an optional number.
None == << "None" >>

\* A float read from decimal digits: its integer part and the digits after the
\* point, trailing zeros dropped, so that equal floats are equal records.
NoNumber == [ int |-> 0 - 1, frac |-> <<>> ]

Truthy(s) == s # None /\ s # <<>>

----------------------------------------------------------------------------
(* The regular expressions of extract_entities.                             *)

IsDigitAt(t, i) == i >= 1 /\ i <= Len(t) /\ t[i] \in Digits

\* \b after a word character at position i: the text ends or a non-word follows.
BoundaryAfter(t, i) == i = Len(t) \/ ~IsWordChar(t[i + 1])

\* \b before a word character at position i.
BoundaryBefore(t, i) == i = 1 \/ ~IsWordChar(t[i - 1])

\* year_pattern = r'\b(20\d{2})(?:-(\d{2}))?\b' matches at position i.
YearAt(t, i) ==
    /\ i + 3 <= Len(t)
    /\ BoundaryBefore(t, i)
    /\ t[i] = "2" /\ t[i + 1] = "0"
    /\ IsDigitAt(t, i + 2) /\ IsDigitAt(t, i + 3)
    /\ \/ /\ i + 6 <= Len(t)
          /\ t[i + 4] = "-"
          /\ IsDigitAt(t, i + 5) /\ IsDigitAt(t, i + 6)
          /\ BoundaryAfter(t, i + 6)
       \/ BoundaryAfter(t, i + 3)

\* re.search(year_pattern, text).group(1), or None.
YearSearch(t) ==
    IF \E i \in 1..Len(t) : YearAt(t, i)
    THEN LET i == CHOOSE j \in 1..Len(t) :
                      YearAt(t, j) /\ \A k \in 1..(j - 1) : ~YearAt(t, k)
         IN  SubSeq(t, i, i + 3)
    ELSE None

\* month_pattern = r'\b(0[1-9]|1[0-2])-(20\d{2})\b' matches at position i.
MonthAt(t, i) ==
    /\ i + 6 <= Len(t)
    /\ BoundaryBefore(t, i)
    /\ \/ t[i] = "0" /\ t[i + 1] \in Digits \ {"0"}
       \/ t[i] = "1" /\ t[i + 1] \in {"0", "1", "2"}
    /\ t[i + 2] = "-"
    /\ t[i + 3] = "2" /\ t[i + 4] = "0"
    /\ IsDigitAt(t, i + 5) /\ IsDigitAt(t, i + 6)
    /\ BoundaryAfter(t, i + 6)

\* f"{month_match.group(2)}-{month_match.group(1)}" of re.search, or None.
MonthSearch(t) ==
    IF \E i \in 1..Len(t) : MonthAt(t, i)
    THEN LET i == CHOOSE j \in 1..Len(t) :
                      MonthAt(t, j) /\ \A k \in 1..(j - 1) : ~MonthAt(t, k)
         IN  SubSeq(t, i + 3, i + 6) \o <<"-">> \o SubSeq(t, i, i + 1)
    ELSE None

\* The last position of the run of digits that starts at i (i - 1 if none).
RECURSIVE DigitRunEnd(_, _)
DigitRunEnd(t, i) == IF IsDigitAt(t, i) THEN DigitRunEnd(t, i + 1) ELSE i - 1

\* The end of group 1, (\d+\.?\d*), for a match that starts at the digit i.
NumberEnd(t, i) ==
    LET e1 == DigitRunEnd(t, i)
    IN  IF e1 < Len(t) /\ t[e1 + 1] = "." THEN DigitRunEnd(t, e1 + 2) ELSE e1

\* The end of the whole match: the unit (?:mm|m|cm|km)? after group 1.
UnitEnd(t, e) ==
    LET at(k, c) == k <= Len(t) /\ t[k] = c
    IN  IF at(e + 1, "m") /\ at(e + 2, "m") THEN e + 2
        ELSE IF at(e + 1, "m") THEN e + 1
        ELSE IF (at(e + 1, "c") \/ at(e + 1, "k")) /\ at(e + 2, "m") THEN e + 2
        ELSE e

\* re.findall(number_pattern, text) from position i on: the group-1 strings.
RECURSIVE NumberFindall(_, _)
NumberFindall(t, i) ==
    IF i > Len(t) THEN <<>>
    ELSE IF ~IsDigitAt(t, i) THEN NumberFindall(t, i + 1)
    ELSE LET e == NumberEnd(t, i)
         IN  <<SubSeq(t, i, e)>> \o NumberFindall(t, UnitEnd(t, e) + 1)

\* int() of a string of digits.
RECURSIVE ParseInt(_)
ParseInt(d) ==
    IF d = <<>> THEN 0 ELSE 10 * ParseInt(SubSeq(d, 1, Len(d) - 1)) + DigitVal[d[Len(d)]]

RECURSIVE DropTrailingZeros(_)
DropTrailingZeros(d) ==
    IF d # <<>> /\ d[Len(d)] = "0" THEN DropTrailingZeros(SubSeq(d, 1, Len(d) - 1))
    ELSE d

\* float() of a group-1 string: digits, then possibly a point and digits.
ParseFloat(m) ==
    LET e1 == DigitRunEnd(m, 1)
    IN  [ int  |-> ParseInt(SubSeq(m, 1, e1)),
          frac |-> DropTrailingZeros(SubSeq(m, e1 + 2, Len(m))) ]

\* 2000 <= num <= 2030
InYearRange(num) ==
    (num.int >= YearRangeLow /\ num.int < YearRangeHigh)
        \/ (num.int = YearRangeHigh /\ num.frac = <<>>)

\* The loop over number_matches without its test of the year range.
FirstNumber_NoYearTest(matches) ==
    IF matches = <<>> THEN NoNumber ELSE ParseFloat(Head(matches))

\* The loop over number_matches: the first value outside the year range.
RECURSIVE FirstNumber(_)
FirstNumber(matches) ==
    IF matches = <<>> THEN NoNumber
    ELSE LET num == ParseFloat(Head(matches))
         IN  IF ~InYearRange(num) THEN num ELSE FirstNumber(Tail(matches))

\* Python's truth value of entities['number']: None and 0.0 are false.
NumberTruthy(num) == num # NoNumber /\ ~(num.int = 0 /\ num.frac = <<>>)

----------------------------------------------------------------------------
(* Bounds of the data set on disk.                                          *)

\* Months of rainfall rows of the state with the longest series.
NumMonths == 14

\* Months of groundwater rows of each district of that state.
NumGwMonths == 7

\* Districts of the state with the most districts.
NumDistricts == 12

\* Months of rainfall rows of the one state of the long rainfall file: one
\* more than the rows handle_future_prediction_query keeps.
LongMonths == 37

----------------------------------------------------------------------------
(* Periods: year_month keys "YYYY-MM".                                      *)

RECURSIVE FmtInt(_, _)
\* n in `width` decimal digits, zero padded.
FmtInt(n, width) ==
    IF width = 0 THEN <<>>
    ELSE FmtInt(n \div 10, width - 1) \o << Alphabet[OrdOf["0"] + (n % 10)] >>

\* strftime("%Y-%m") of the first day of month m of year y.
FmtPeriod(y, m) == FmtInt(y, 4) \o <<"-">> \o FmtInt(m, 2)

\* The period k months after month m of year y.
PeriodAfter(y, m, k) ==
    LET n == (y * 12 + (m - 1)) + k IN FmtPeriod(n \div 12, (n % 12) + 1)

----------------------------------------------------------------------------
(* The two CSV files and the predictor artifact on disk.                    *)

s_goa == <<"g","o","a">>
s_delhi == <<"d","e","l","h","i">>
s_maharashtra == <<"m","a","h","a","r","a","s","h","t","r","a">>
s_kerala == <<"k","e","r","a","l","a">>
s_assam == <<"a","s","s","a","m">>
s_bihar == <<"b","i","h","a","r">>
d_panaji == <<"p","a","n","a","j","i">>
d_margao == <<"m","a","r","g","a","o">>
d_pune == <<"p","u","n","e">>
d_new_delhi == <<"n","e","w"," ","d","e","l","h","i">>
d_kochi == <<"k","o","c","h","i">>
d_dispur == <<"d","i","s","p","u","r">>

RainfallColumns == { "state_name", "year_month", "rainfall_actual_mm" }

GroundwaterColumns == { "state_name", "district_name", "year_month", "gw_level_m_bgl" }

RainRow(s, ym, v) == [ state_name |-> s, year_month |-> ym, rainfall_actual_mm |-> v ]

GwRow(s, d, ym, v) ==
    [ state_name |-> s, district_name |-> d, year_month |-> ym, gw_level_m_bgl |-> v ]

\* data/rainfall.csv as written: names not yet normalised, rows of a state
\* not in chronological order, one row without a state name, one state with
\* rows of a single calendar month.
RainfallRows ==
    [ k \in 1..NumMonths |->
        RainRow(<<"G","o","a"," ">>, PeriodAfter(2023, 1, NumMonths - k), 100 + (NumMonths - k)) ]
    \o [ k \in 1..12 |-> RainRow(<<"M","a","h","a","r","a","s","h","t","r","a">>, PeriodAfter(2023, 1, k - 1), 50 + k) ]
    \o << RainRow(<<"D","e","l","h","i">>, PeriodAfter(2023, 5, 0), 40),
          RainRow(<<"D","e","l","h","i">>, PeriodAfter(2023, 6, 0), 55),
          RainRow(<<>>, PeriodAfter(2023, 6, 0), 1),
          RainRow(<<"A","s","s","a","m">>, PeriodAfter(2021, 6, 0), 40),
          RainRow(<<"A","s","s","a","m">>, PeriodAfter(2022, 6, 0), 44),
          RainRow(<<"A","s","s","a","m">>, PeriodAfter(2023, 6, 0), 51),
          RainRow(<<"B","i","h","a","r">>, PeriodAfter(2023, 6, 0), 60) >>

\* Another data/rainfall.csv: one state, a row for each of LongMonths
\* consecutive months from 2021-01, the latest month first.
LongRainfallRows ==
    [ k \in 1..LongMonths |->
        RainRow(<<"G","o","a">>, PeriodAfter(2021, 1, LongMonths - k), 100 + ((LongMonths - k) % 3)) ]

\* data/groundwater.csv as written: rows grouped by district, the districts
\* of one state in descending order of their names, one row each.
GroundwaterRows ==
    [ k \in 1..NumGwMonths |-> GwRow(<<"G","o","a">>, <<"P","a","n","a","j","i">>, PeriodAfter(2023, 1, k - 1), 5 + k) ]
    \o [ k \in 1..NumGwMonths |->
           GwRow(<<"g","o","a">>, <<" ","m","a","r","g","a","o">>, PeriodAfter(2023, 1, k - 1), 20 + 2 * k) ]
    \o << GwRow(<<"M","a","h","a","r","a","s","h","t","r","a">>, <<"P","u","n","e">>, PeriodAfter(2023, 6, 0), 9),
          GwRow(<<"M","a","h","a","r","a","s","h","t","r","a">>, <<"P","u","n","e">>, PeriodAfter(2023, 5, 0), 8),
          GwRow(<<"D","e","l","h","i">>, <<"N","e","w"," ","D","e","l","h","i">>, PeriodAfter(2023, 6, 0), 30),
          GwRow(<<"K","e","r","a","l","a">>, <<"K","o","c","h","i">>, PeriodAfter(2023, 6, 0), 4),
          GwRow(<<"K","e","r","a","l","a">>, <<>>, PeriodAfter(2023, 5, 0), 3),
          GwRow(<<"A","s","s","a","m">>, <<"D","i","s","p","u","r">>, PeriodAfter(2022, 6, 0), 7),
          GwRow(<<"A","s","s","a","m">>, <<"D","i","s","p","u","r">>, PeriodAfter(2023, 6, 0), 9) >>
    \o [ k \in 1..NumDistricts |->
           LET j == NumDistricts + 1 - k
               half == (j - 1) \div 2
           IN  GwRow(<<"B","i","h","a","r">>, <<"W","a","r","d"," ">> \o FmtInt(j, 2),
                     PeriodAfter(2023, 1, IF half < 4 THEN half ELSE half + 2), 10 + j) ]

\* A file on disk: whether pd.read_csv can read it, its header and its rows.
CsvFile(readable, columns, rows) ==
    [ readable |-> readable, columns |-> columns, rows |-> rows ]

RainfallFiles ==
    { CsvFile(TRUE, RainfallColumns, RainfallRows),
      CsvFile(TRUE, RainfallColumns,
              RainfallRows \o << RainRow(<<"x","y","z">>, PeriodAfter(2023, 6, 0), 12) >>),
      CsvFile(TRUE, RainfallColumns, LongRainfallRows),
      CsvFile(TRUE, RainfallColumns, <<>>),
      CsvFile(FALSE, {}, <<>>) }
    \cup { CsvFile(TRUE, RainfallColumns \ {c}, RainfallRows) : c \in RainfallColumns }

GroundwaterFiles ==
    { CsvFile(TRUE, GroundwaterColumns, GroundwaterRows),
      CsvFile(TRUE, GroundwaterColumns, <<>>),
      CsvFile(FALSE, {}, <<>>) }
    \cup { CsvFile(TRUE, GroundwaterColumns \ {c}, GroundwaterRows) :
             c \in GroundwaterColumns }

\* The artifact groundwater_predictor.pkl: absent, a file joblib.load fails
\* on, a regressor, or an object whose predict raises.
Artifacts == { "missing", "corrupt", "regressor", "broken" }

\* The disks of the model: at most one of the three files departs from the
\* well-formed one.
Disks ==
    { d \in [ rainfall : RainfallFiles, groundwater : GroundwaterFiles,
              artifact : Artifacts ] :
        Cardinality({ f \in {"r", "g", "a"} :
            \/ f = "r" /\ d.rainfall # CsvFile(TRUE, RainfallColumns, RainfallRows)
            \/ f = "g" /\ d.groundwater # CsvFile(TRUE, GroundwaterColumns, GroundwaterRows)
            \/ f = "a" /\ d.artifact # "regressor" }) <= 1 }

----------------------------------------------------------------------------
(* Data frames.                                                             *)

\* pd.DataFrame(): no columns, no rows.
EmptyFrame == [ columns |-> {}, rows |-> <<>>, datetime |-> {} ]

\* DataFrame.empty: an axis of length 0.
IsEmpty(df) == df.columns = {} \/ df.rows = <<>>

HasCol(df, c) == c \in df.columns

\* Series.fillna("").astype(str).str.strip().str.lower()
CleanName(s) == Lower(Strip(s))

\* load_data: any exception of the try block leaves two empty frames.
load_data(disk) ==
    LET rf == disk.rainfall
        gw == disk.groundwater
        ok == /\ rf.readable /\ gw.readable
              /\ "state_name" \in rf.columns
              /\ "state_name" \in gw.columns
              /\ "district_name" \in gw.columns
              /\ "year_month" \in rf.columns
              /\ "year_month" \in gw.columns
    IN  IF ok
        THEN [ rainfall |->
                 [ columns |-> rf.columns \cup {"date"}, datetime |-> {"date"},
                   rows |-> [ i \in 1..Len(rf.rows) |->
                       [ rf.rows[i] EXCEPT !.state_name = CleanName(@) ] ] ],
               groundwater |->
                 [ columns |-> gw.columns \cup {"date"}, datetime |-> {"date"},
                   rows |-> [ i \in 1..Len(gw.rows) |->
                       [ gw.rows[i] EXCEPT !.state_name = CleanName(@),
                                           !.district_name = CleanName(@) ] ] ] ]
        ELSE [ rainfall |-> EmptyFrame, groundwater |-> EmptyFrame ]

\* load_model: joblib.load raising leaves model = None.
load_model(disk) ==
    IF disk.artifact \in { "missing", "corrupt" } THEN "None" ELSE disk.artifact

\* One row put into rows sorted by year_month, after the rows of its period.
RECURSIVE InsertByPeriod(_, _)
InsertByPeriod(sorted, row) ==
    IF sorted = <<>> THEN <<row>>
    ELSE IF StrLess(row.year_month, Head(sorted).year_month)
         THEN <<row>> \o sorted
         ELSE <<Head(sorted)>> \o InsertByPeriod(Tail(sorted), row)

\* data.sort_values('year_month'); rows of one period keep their file order.
RECURSIVE SortByPeriod(_)
SortByPeriod(rows) ==
    IF rows = <<>> THEN <<>>
    ELSE InsertByPeriod(SortByPeriod(SubSeq(rows, 1, Len(rows) - 1)), rows[Len(rows)])

\* DataFrame.tail(n)
TailRows(rows, n) ==
    IF Len(rows) <= n THEN rows ELSE SubSeq(rows, Len(rows) - n + 1, Len(rows))

\* get_available_states
get_available_states(rainfall) ==
    IF IsEmpty(rainfall) THEN <<>>
    ELSE SortedStrings({ rainfall.rows[i].state_name : i \in 1..Len(rainfall.rows) }
                           \ { s \in { rainfall.rows[i].state_name :
                                         i \in 1..Len(rainfall.rows) } : Strip(s) = <<>> })

\* The distinct strings of a sequence in the order of their first
\* appearance, as Series.unique() returns them.
RECURSIVE Unique(_)
Unique(seq) ==
    IF seq = <<>> THEN <<>>
    ELSE LET front == Unique(SubSeq(seq, 1, Len(seq) - 1))
             last == seq[Len(seq)]
         IN  IF \E i \in 1..Len(front) : front[i] = last THEN front
             ELSE Append(front, last)

\* get_available_districts without sorted(): the districts in file order.
get_available_districts_FileOrder(groundwater, state) ==
    IF Truthy(state) /\ ~IsEmpty(groundwater)
    THEN LET keep(r) == r.state_name = state /\ Strip(r.district_name) # <<>>
             rows == SelectSeq(groundwater.rows, keep)
         IN  Unique([ i \in 1..Len(rows) |-> rows[i].district_name ])
    ELSE <<>>

\* get_available_districts
get_available_districts(groundwater, state) ==
    IF Truthy(state) /\ ~IsEmpty(groundwater)
    THEN LET of == { groundwater.rows[i].district_name :
                       i \in { j \in 1..Len(groundwater.rows) :
                                 groundwater.rows[j].state_name = state } }
         IN  SortedStrings({ d \in of : Strip(d) # <<>> })
    ELSE <<>>

\* get_rainfall_data
get_rainfall_data(rainfall, state, year_month) ==
    LET byState(r) == Truthy(state) => r.state_name = state
        byMonth(r) == Truthy(year_month) => r.year_month = year_month
    IN  SelectSeq(SelectSeq(rainfall.rows, byState), byMonth)

\* get_groundwater_data
get_groundwater_data(groundwater, state, district, year_month) ==
    LET byState(r) == Truthy(state) => r.state_name = state
        byDistrict(r) == Truthy(district) => r.district_name = district
        byMonth(r) == Truthy(year_month) => r.year_month = year_month
    IN  SelectSeq(SelectSeq(SelectSeq(groundwater.rows, byState), byDistrict), byMonth)

----------------------------------------------------------------------------
(* extract_entities                                                         *)

\* for name in names: if name in text_lower: ...; break
RECURSIVE FirstContained(_, _)
FirstContained(names, text_lower) ==
    IF names = <<>> THEN None
    ELSE IF Contains(text_lower, Head(names)) THEN Head(names)
    ELSE FirstContained(Tail(names), text_lower)

\* A variant of the state loop without its break: the last listed name wins.
extract_state_NoBreak(text, rainfall) ==
    LET hits == SelectSeq(get_available_states(rainfall),
                          LAMBDA name : Contains(Lower(text), name))
    IN  IF hits = <<>> THEN None ELSE hits[Len(hits)]

extract_state(text, rainfall) ==
    FirstContained(get_available_states(rainfall), Lower(text))

extract_district(text, state, groundwater) ==
    IF Truthy(state)
    THEN FirstContained(get_available_districts(groundwater, state), Lower(text))
    ELSE None

extract_number(text) == FirstNumber(NumberFindall(text, 1))

\* A variant of the extraction whose state names come from both tables.
extract_entities_BothTables(text, rainfall, groundwater) ==
    LET names == get_available_states(rainfall) \o get_available_states(groundwater)
        state == FirstContained(SortedStrings({ names[i] : i \in 1..Len(names) }),
                                Lower(text))
    IN  [ state    |-> state,
          district |-> extract_district(text, state, groundwater),
          year     |-> YearSearch(text),
          month    |-> MonthSearch(text),
          number   |-> extract_number(text) ]

extract_entities(text, rainfall, groundwater) ==
    LET state == extract_state(text, rainfall)
    IN  [ state    |-> state,
          district |-> extract_district(text, state, groundwater),
          year     |-> YearSearch(text),
          month    |-> MonthSearch(text),
          number   |-> extract_number(text) ]

----------------------------------------------------------------------------
(* Answers.  An answer string is modelled by the template it is built from  *)
(* (kind) and the values formatted into it.  exc names an exception that    *)
(* left the call instead of an answer; calls lists the calls of             *)
(* model.predict made on the way.                                           *)

Num(v) == [ tag |-> "num", v |-> v ]

NaN == [ tag |-> "nan", v |-> 0 ]

NoValue == [ tag |-> "none", v |-> 0 ]

\* A dict of analyze_trends: its keys and their values.
TrendDict(trend, seasonality, volatility) ==
    [ keys |-> { "trend", "seasonality", "volatility" },
      trend |-> trend, seasonality |-> seasonality, volatility |-> volatility ]

\* The empty dict {}: no key, so none of the three fields is a value of it.
EmptyDict == [ keys |-> {}, trend |-> 0, seasonality |-> 0, volatility |-> NoValue ]

Resp(kind) ==
    [ kind |-> kind, state |-> None, district |-> None, period |-> None,
      value |-> NoValue, value2 |-> NoValue, latest |-> None,
      rising |-> FALSE, rising2 |-> FALSE,
      items |-> <<>>, total |-> 0, remaining |-> 0, variant |-> 0,
      year |-> None, number |-> NoNumber, months |-> 0,
      forecast |-> <<>>, trend |-> EmptyDict, confidence |-> 0,
      calls |-> <<>>, exc |-> "none" ]

Raise(e) == [ Resp("exception") EXCEPT !.exc = e ]

RECURSIVE SumSeq(_)
SumSeq(v) == IF v = <<>> THEN 0 ELSE Head(v) + SumSeq(Tail(v))

\* a / b for a >= 0, b > 0, rounded to the nearest integer, ties to even.
RoundDiv(a, b) ==
    LET q == a \div b
        r == a % b
    IN  IF 2 * r < b THEN q
        ELSE IF 2 * r > b THEN q + 1
        ELSE IF q % 2 = 0 THEN q ELSE q + 1

\* a / b for b > 0, rounded likewise, for either sign of a.
RoundDivSigned(a, b) == IF a >= 0 THEN RoundDiv(a, b) ELSE 0 - RoundDiv(0 - a, b)

\* f"{Series.mean():.2f}" of a non-empty series of integers, in hundredths.
MeanHundredths(v) == Num(RoundDiv(100 * SumSeq(v), Len(v)))

\* f"{x:.2f}" of an integer, in hundredths.
Hundredths(x) == Num(100 * x)

RainValues(rows) == [ i \in 1..Len(rows) |-> rows[i].rainfall_actual_mm ]

GwValues(rows) == [ i \in 1..Len(rows) |-> rows[i].gw_level_m_bgl ]

\* The rows of the "last 12 months" of the two data handlers.
RecentRows == 12

\* The rows of handle_trend_query.
TrendRows == 24

\* The rows of handle_future_prediction_query.
FutureRows == 36

----------------------------------------------------------------------------
(* The handlers.                                                            *)

\* get_greeting_response: np.random.choice over three greetings.
get_greeting_response == { [ Resp("greeting") EXCEPT !.variant = i ] : i \in 1..3 }

get_help_response == Resp("help")

get_default_response == Resp("default")

handle_rainfall_query(entities, rainfall) ==
    LET state == entities.state
        year_month == entities.month
        data == get_rainfall_data(rainfall, state, year_month)
        latest_data == TailRows(SortByPeriod(data), RecentRows)
    IN  IF Truthy(state)
        THEN IF data # <<>>
             THEN IF ~HasCol(rainfall, "rainfall_actual_mm") THEN Raise("KeyError")
                  ELSE IF Truthy(year_month)
                  THEN [ Resp("rainfall_period") EXCEPT
                           !.state = state, !.period = year_month,
                           !.value = MeanHundredths(RainValues(data)) ]
                  ELSE [ Resp("rainfall_recent") EXCEPT
                           !.state = state,
                           !.value = MeanHundredths(RainValues(latest_data)),
                           !.latest = latest_data[Len(latest_data)].year_month ]
             ELSE [ Resp("rainfall_nodata") EXCEPT !.state = state ]
        ELSE Resp("rainfall_usage")

\* A variant of the groundwater handler without the test for a state.
handle_groundwater_query_NoStateTest(entities, groundwater) ==
    LET state == entities.state
        district == entities.district
        year_month == entities.month
        data == get_groundwater_data(groundwater, state, district, year_month)
        latest_data == TailRows(SortByPeriod(data), RecentRows)
        located(r) == [ r EXCEPT !.state = state, !.district = district ]
    IN  IF data # <<>>
        THEN IF ~HasCol(groundwater, "gw_level_m_bgl") THEN Raise("KeyError")
             ELSE IF Truthy(year_month)
             THEN located([ Resp("groundwater_period") EXCEPT
                      !.period = year_month,
                      !.value = MeanHundredths(GwValues(data)) ])
             ELSE located([ Resp("groundwater_recent") EXCEPT
                      !.value = MeanHundredths(GwValues(latest_data)),
                      !.latest = latest_data[Len(latest_data)].year_month ])
        ELSE located(Resp("groundwater_nodata"))

handle_groundwater_query(entities, groundwater) ==
    LET state == entities.state
        district == entities.district
        year_month == entities.month
        data == get_groundwater_data(groundwater, state, district, year_month)
        latest_data == TailRows(SortByPeriod(data), RecentRows)
        located(r) == [ r EXCEPT !.state = state, !.district = district ]
    IN  IF Truthy(state)
        THEN IF data # <<>>
             THEN IF ~HasCol(groundwater, "gw_level_m_bgl") THEN Raise("KeyError")
                  ELSE IF Truthy(year_month)
                  THEN located([ Resp("groundwater_period") EXCEPT
                           !.period = year_month,
                           !.value = MeanHundredths(GwValues(data)) ])
                  ELSE located([ Resp("groundwater_recent") EXCEPT
                           !.value = MeanHundredths(GwValues(latest_data)),
                           !.latest = latest_data[Len(latest_data)].year_month ])
             ELSE located(Resp("groundwater_nodata"))
        ELSE Resp("groundwater_usage")

\* model.predict of the regressor train_model.py fits: linear in the two
\* features (result in hundredths).
RegressorPredict(rainfall_value, lag_gw) == 90 * lag_gw - rainfall_value.int

\* predict_groundwater without its try/except: an exception of predict
\* leaves the method.
predict_groundwater_NoExcept(model, rainfall_value, lag_gw) ==
    IF model = "None" THEN NoValue
    ELSE IF model = "broken" THEN [ tag |-> "raise", v |-> 0 ]
    ELSE Num(RegressorPredict(rainfall_value, lag_gw))

\* predict_groundwater: None without a model or when predict raises.
predict_groundwater(model, rainfall_value, lag_gw) ==
    IF model = "None" THEN NoValue
    ELSE IF model = "broken" THEN NoValue
    ELSE Num(RegressorPredict(rainfall_value, lag_gw))

handle_prediction_query(entities, groundwater, model) ==
    LET state == entities.state
        district == entities.district
        rainfall_value == entities.number
        year == entities.year
        latest_gw_data ==
            TailRows(SortByPeriod(get_groundwater_data(groundwater, state, district, None)), 1)
        lag_gw == latest_gw_data[1].gw_level_m_bgl
        prediction == predict_groundwater(model, rainfall_value, lag_gw)
        call == << [ rainfall |-> rainfall_value, lag |-> lag_gw ] >>
        located(r) == [ r EXCEPT !.state = state, !.district = district ]
    IN  IF model = "None" THEN Resp("model_unavailable")
        ELSE IF Truthy(state) /\ NumberTruthy(rainfall_value)
        THEN IF latest_gw_data # <<>>
             THEN IF ~HasCol(groundwater, "gw_level_m_bgl") THEN Raise("KeyError")
                  ELSE IF prediction # NoValue
                  THEN located([ Resp("prediction") EXCEPT
                           !.year = year, !.number = rainfall_value,
                           !.value = Hundredths(lag_gw), !.value2 = prediction,
                           !.calls = call ])
                  ELSE [ Resp("prediction_failed") EXCEPT !.calls = call ]
             ELSE located(Resp("prediction_nodata"))
        ELSE Resp("prediction_usage")

handle_comparison_query == Resp("comparison")

\* f"{Series.diff().mean():+.2f}" of a non-empty series, in hundredths: the
\* mean of the differences of consecutive rows, NaN for a single row.
DiffMean(v) ==
    IF Len(v) < 2 THEN NaN
    ELSE Num(RoundDivSigned(100 * (v[Len(v)] - v[1]), Len(v) - 1))

\* trend > 0 of the two labels; False for NaN.
Positive(v) == Len(v) >= 2 /\ v[Len(v)] > v[1]

handle_trend_query(entities, rainfall, groundwater) ==
    LET state == entities.state
        rainfall_data ==
            TailRows(SortByPeriod(get_rainfall_data(rainfall, state, None)), TrendRows)
        gw_data ==
            TailRows(SortByPeriod(get_groundwater_data(groundwater, state, None, None)),
                     TrendRows)
    IN  IF Truthy(state)
        THEN IF rainfall_data # <<>> /\ gw_data # <<>>
             THEN IF ~HasCol(rainfall, "rainfall_actual_mm")
                        \/ ~HasCol(groundwater, "gw_level_m_bgl")
                  THEN Raise("KeyError")
                  ELSE [ Resp("trend") EXCEPT
                           !.state = state,
                           !.value = DiffMean(RainValues(rainfall_data)),
                           !.value2 = DiffMean(GwValues(gw_data)),
                           !.rising = Positive(RainValues(rainfall_data)),
                           !.rising2 = Positive(GwValues(gw_data)) ]
             ELSE [ Resp("trend_insufficient") EXCEPT !.state = state ]
        ELSE Resp("trend_usage")

\* The districts listed by handle_district_query.
ListedDistricts == 10

\* A variant of the district handler without the test for a state.
handle_district_query_NoStateTest(entities, groundwater) ==
    LET state == entities.state
        districts == get_available_districts(groundwater, state)
    IN  IF districts # <<>>
        THEN [ Resp("districts") EXCEPT !.state = state, !.items = districts,
                                        !.total = Len(districts) ]
        ELSE [ Resp("districts_none") EXCEPT !.state = state ]

handle_district_query(entities, groundwater) ==
    LET state == entities.state
        districts == get_available_districts(groundwater, state)
    IN  IF Truthy(state)
        THEN IF districts # <<>>
             THEN [ Resp("districts") EXCEPT
                      !.state = state,
                      !.items = SubSeq(districts, 1,
                                       IF Len(districts) < ListedDistricts
                                       THEN Len(districts) ELSE ListedDistricts),
                      !.remaining = IF Len(districts) > ListedDistricts
                                    THEN Len(districts) - ListedDistricts ELSE 0,
                      !.total = Len(districts) ]
             ELSE [ Resp("districts_none") EXCEPT !.state = state ]
        ELSE Resp("districts_usage")

----------------------------------------------------------------------------
(* The Trend & Projection Engine, as far as the periods and the confidence  *)
(* of the projected points go.                                              *)

\* pd.to_datetime of a "YYYY-MM" key: the first day of that month.
ToDatetime(ym) == [ year |-> ParseInt(SubSeq(ym, 1, 4)), month |-> ParseInt(SubSeq(ym, 6, 7)) ]

DateLess(a, b) == a.year * 12 + a.month < b.year * 12 + b.month

RECURSIVE InsertByDate(_, _)
InsertByDate(sorted, row) ==
    IF sorted = <<>> THEN <<row>>
    ELSE IF DateLess(ToDatetime(row.year_month), ToDatetime(Head(sorted).year_month))
         THEN <<row>> \o sorted
         ELSE <<Head(sorted)>> \o InsertByDate(Tail(sorted), row)

\* data.sort_values(date_col)
RECURSIVE SortByDate(_)
SortByDate(rows) ==
    IF rows = <<>> THEN <<>>
    ELSE InsertByDate(SortByDate(SubSeq(rows, 1, Len(rows) - 1)), rows[Len(rows)])

\* Numbers of the engine are decimals held as integers: a trend in units of
\* 0.0001, a seasonality or volatility in units of 0.01, a running value in
\* units of 0.0001, a reported value in units of 0.01.
Abs(x) == IF x < 0 THEN 0 - x ELSE x

Sign(x) == IF x < 0 THEN 0 - 1 ELSE 1

\* round(num / den, digits) for den > 0, in units of 1 / scale.
RoundTo(num, den, scale) ==
    LET q == Abs(num) \div den
        r == Abs(num) % den
    IN  Sign(num) * (q * scale + RoundDiv(r * scale, den))

RECURSIVE IsqrtIn(_, _, _)
\* The largest s in lo..hi with s * s <= n.
IsqrtIn(n, lo, hi) ==
    IF lo >= hi THEN lo
    ELSE LET mid == (lo + hi + 1) \div 2
         IN  IF mid * mid <= n THEN IsqrtIn(n, mid, hi) ELSE IsqrtIn(n, lo, mid - 1)

\* round(sqrt(N / D), 2) for N >= 0, D > 0, in units of 0.01.
StdHundredths(N, D) ==
    LET q == N \div D
        r == N % D
        X == 10000 * q + (10000 * r) \div D
        rem == (10000 * r) % D
        s == IsqrtIn(X, 0, 40000)
    IN  IF X > s * s + s \/ (X = s * s + s /\ 4 * rem >= D) THEN s + 1 ELSE s

\* np.polyfit(np.arange(n), y, 1)[0] rounded to 4 places: the least-squares
\* slope of y over 0 .. n-1, for n > 1.
Slope(y) ==
    LET n == Len(y)
        Sx == (n * (n - 1)) \div 2
        Sxx == ((n - 1) * n * (2 * n - 1)) \div 6
        Sy == SumSeq(y)
        Sxy == SumSeq([ i \in 1..n |-> (i - 1) * y[i] ])
    IN  RoundTo(n * Sxy - Sx * Sy, n * Sxx - Sx * Sx, 10000)

\* Series.std() (ddof = 1) rounded to 2 places; NaN for a single value.
StdOf(y) ==
    LET n == Len(y)
    IN  IF n < 2 THEN NaN
        ELSE Num(StdHundredths(n * SumSeq([ i \in 1..n |-> y[i] * y[i] ]) - SumSeq(y) * SumSeq(y),
                               n * (n - 1)))

\* The least common multiple of the sizes of the month groups.
Lcm(S) == CHOOSE l \in 1..720 :
              /\ \A c \in S : l % c = 0
              /\ \A k \in 1..(l - 1) : \E c \in S : k % c # 0

\* data.groupby('month')[value_col].mean().std() rounded to 2 places, for
\* rows (dates, values) with at least two calendar months.  The monthly
\* means are held over the common denominator L.
MonthlyStd(dates, y) ==
    LET n == Len(y)
        of(m) == { i \in 1..n : dates[i].month = m }
        months == { m \in 1..12 : of(m) # {} }
        k == Cardinality(months)
        L == Lcm({ Cardinality(of(m)) : m \in months })
        M == [ m \in 1..12 |->
                 IF of(m) = {} THEN 0
                 ELSE SumSeq([ i \in 1..n |-> IF dates[i].month = m THEN y[i] ELSE 0 ])
                          * (L \div Cardinality(of(m))) ]
    IN  StdHundredths(k * SumSeq([ m \in 1..12 |-> M[m] * M[m] ]) - SumSeq(M) * SumSeq(M),
                      k * (k - 1) * L * L)

\* np.sin(2 * np.pi * month / 12) in units of 0.0001.
SinOfMonth ==
    << 5000, 8660, 10000, 8660, 5000, 0, 0 - 5000, 0 - 8660, 0 - 10000, 0 - 8660, 0 - 5000, 0 >>

\* seasonal_factor = 1 + seasonality * 0.1 * sin(...), in units of 0.0000001.
SeasonalFactor(seasonality, month) == 10000000 + seasonality * SinOfMonth[month]

\* value * factor, value in units of 0.0001 and factor in units of
\* 0.0000001, rounded to a unit of 0.0001; the product is taken in
\* four-digit limbs.
TimesFactor(value, factor) ==
    LET a == Abs(value)
        f == Abs(factor)
        ah == a \div 10000
        al == a % 10000
        fh == f \div 10000
        fl == f % 10000
        mid == ah * fl + al * fh
    IN  Sign(value) * Sign(factor)
            * (ah * fh * 10 + mid \div 1000 + RoundDiv((mid % 1000) * 10000 + al * fl, 10000000))

\* A variant of the month step that forgets the year at the turn of December.
NextMonth_SameYear(d) ==
    IF d.month = 12 THEN [ year |-> d.year, month |-> 1 ]
    ELSE [ year |-> d.year, month |-> d.month + 1 ]

\* The month after current_date (lines 320-323).
NextMonth(d) ==
    IF d.month = 12 THEN [ year |-> d.year + 1, month |-> 1 ]
    ELSE [ year |-> d.year, month |-> d.month + 1 ]

\* A variant of the confidence without its floor: 1 - (i * 0.05).
Confidence_NoFloor(i) == 100 - 5 * i

\* A variant of the confidence with a lower floor: max(0.2, 1 - (i * 0.05)).
Confidence_LowerFloor(i) == IF 100 - 5 * i > 20 THEN 100 - 5 * i ELSE 20

\* max(0.3, 1 - (i * 0.05)), in hundredths.
Confidence(i) == IF 100 - 5 * i > 30 THEN 100 - 5 * i ELSE 30

ValuesOf(rows, value_col) == [ i \in 1..Len(rows) |-> rows[i][value_col] ]

\* analyze_trends: trend in units of 0.0001, seasonality and volatility in
\* units of 0.01.
analyze_trends(data, value_col) ==
    IF data = <<>> THEN TrendDict(0, 0, Num(0))
    ELSE LET sorted == SortByDate(data)
             y == ValuesOf(sorted, value_col)
             dates == [ i \in 1..Len(sorted) |-> ToDatetime(sorted[i].year_month) ]
             monthly_avg == { dates[i].month : i \in 1..Len(dates) }
             trend == IF Len(y) > 1 THEN Slope(y) ELSE 0
             seasonality == IF Cardinality(monthly_avg) > 1 THEN MonthlyStd(dates, y) ELSE 0
             volatility == StdOf(y)
         IN  TrendDict(trend, seasonality, volatility)

\* A variant of the loop that adds the trend once per step, not i times.
RECURSIVE ProjectFrom_TrendOnce(_, _, _, _, _)
ProjectFrom_TrendOnce(current_date, current_value, i, months_ahead, trend_analysis) ==
    IF i > months_ahead THEN <<>>
    ELSE LET next_date == NextMonth(current_date)
             seasonal_factor == SeasonalFactor(trend_analysis.seasonality, next_date.month)
             predicted_value ==
                 TimesFactor(current_value + trend_analysis.trend, seasonal_factor)
         IN  << [ date |-> FmtPeriod(next_date.year, next_date.month),
                  value |-> RoundDivSigned(predicted_value, 100),
                  confidence |-> Confidence(i) ] >>
                 \o ProjectFrom_TrendOnce(next_date, predicted_value, i + 1, months_ahead,
                                          trend_analysis)

\* The loop of predict_future_values from step i on; current_value is the
\* unrounded value of the step before, in units of 0.0001.
RECURSIVE ProjectFrom(_, _, _, _, _)
ProjectFrom(current_date, current_value, i, months_ahead, trend_analysis) ==
    IF i > months_ahead THEN <<>>
    ELSE LET next_date == NextMonth(current_date)
             seasonal_factor == SeasonalFactor(trend_analysis.seasonality, next_date.month)
             predicted_value ==
                 TimesFactor(current_value + trend_analysis.trend * i, seasonal_factor)
         IN  << [ date |-> FmtPeriod(next_date.year, next_date.month),
                  value |-> RoundDivSigned(predicted_value, 100),
                  confidence |-> Confidence(i) ] >>
                 \o ProjectFrom(next_date, predicted_value, i + 1, months_ahead, trend_analysis)

\* predict_future_values: the projected points after the latest row by date,
\* the mean of their confidences and the trend summary.
\* np.mean of no numbers is nan, and a sum with nan is nan; the confidences
\* are in hundredths, so nan is written as a negative number.
NanConfidence == 0 - 1

\* round(np.mean([p["confidence"] for p in predictions]), 2), in hundredths
MeanConfidence(predictions) ==
    IF predictions = <<>> THEN NanConfidence
    ELSE RoundDiv(SumSeq([ i \in 1..Len(predictions) |-> predictions[i].confidence ]),
                  Len(predictions))

predict_future_values(data, value_col, months_ahead) ==
    IF data = <<>>
    THEN [ predictions |-> <<>>, confidence |-> 0, trend_analysis |-> EmptyDict ]
    ELSE LET sorted == SortByDate(data)
             trend_analysis == analyze_trends(sorted, value_col)
             latest_value == sorted[Len(sorted)][value_col]
             latest_date == ToDatetime(sorted[Len(sorted)].year_month)
             predictions ==
                 ProjectFrom(latest_date, 10000 * latest_value, 1, months_ahead, trend_analysis)
         IN  [ predictions |-> predictions,
               confidence |-> MeanConfidence(predictions),
               trend_analysis |-> trend_analysis ]

\* current_year of handle_future_prediction_query.
CurrentYear == 2024

\* The limit of months_ahead.
MaxMonthsAhead == 60

\* The default of months_ahead.
DefaultMonthsAhead == 12

\* A variant of months_ahead without the lower limit max(1, ...).
MonthsAhead_NoLowerLimit(year) ==
    IF Truthy(year)
    THEN LET m == (ParseInt(year) - CurrentYear) * 12
         IN  IF m < MaxMonthsAhead THEN m ELSE MaxMonthsAhead
    ELSE DefaultMonthsAhead

\* months_ahead of handle_future_prediction_query (lines 602-607).
MonthsAhead(year) ==
    IF Truthy(year)
    THEN LET m == (ParseInt(year) - CurrentYear) * 12
             c == IF m < MaxMonthsAhead THEN m ELSE MaxMonthsAhead
         IN  IF c > 1 THEN c ELSE 1
    ELSE DefaultMonthsAhead

handle_future_prediction_query(entities, rainfall, groundwater) ==
    LET state == entities.state
        district == entities.district
        months_ahead == MonthsAhead(entities.year)
        rainfall_data == get_rainfall_data(rainfall, state, None)
        groundwater_data == get_groundwater_data(groundwater, state, district, None)
        recent_rainfall == TailRows(rainfall_data, FutureRows)
        recent_groundwater == TailRows(groundwater_data, FutureRows)
        rainfall_predictions ==
            predict_future_values(recent_rainfall, "rainfall_actual_mm", months_ahead)
        groundwater_predictions ==
            predict_future_values(recent_groundwater, "gw_level_m_bgl", months_ahead)
        located(r) == [ r EXCEPT !.state = state, !.district = district ]
    IN  IF Truthy(state)
        THEN IF rainfall_data # <<>> /\ groundwater_data # <<>>
             THEN IF ~HasCol(rainfall, "rainfall_actual_mm")
                        \/ ~HasCol(groundwater, "gw_level_m_bgl")
                  THEN Raise("KeyError")
                  ELSE located([ Resp("future") EXCEPT
                           !.months = months_ahead,
                           !.trend = rainfall_predictions.trend_analysis,
                           !.confidence =
                               IF NanConfidence \in { rainfall_predictions.confidence,
                                                      groundwater_predictions.confidence }
                               THEN NanConfidence
                               ELSE 5 * (rainfall_predictions.confidence
                                         + groundwater_predictions.confidence),
                           !.forecast = << rainfall_predictions.predictions,
                                           groundwater_predictions.predictions >> ])
             ELSE located(Resp("future_insufficient"))
        ELSE Resp("future_usage")

----------------------------------------------------------------------------
(* generate_response                                                        *)

GreetingWords ==
    << <<"h","e","l","l","o">>, <<"h","i">>, <<"h","e","y">>, <<"g","o","o","d"," ","m","o","r","n","i","n","g">>, <<"g","o","o","d"," ","a","f","t","e","r","n","o","o","n">>, <<"g","o","o","d"," ","e","v","e","n","i","n","g">> >>

HelpWords == << <<"h","e","l","p">>, <<"w","h","a","t"," ","c","a","n"," ","y","o","u"," ","d","o">>, <<"c","o","m","m","a","n","d","s">>, <<"f","e","a","t","u","r","e","s">> >>

FutureWords ==
    << <<"f","u","t","u","r","e">>, <<"f","o","r","e","c","a","s","t">>, <<"n","e","x","t"," ","y","e","a","r">>, <<"c","o","m","i","n","g"," ","m","o","n","t","h","s">>, <<"e","s","t","i","m","a","t","e">>, <<"p","r","o","j","e","c","t","i","o","n">> >>

PredictWords == << <<"p","r","e","d","i","c","t">>, <<"w","h","a","t"," ","w","i","l","l"," ","b","e">> >>

RainfallWords == << <<"r","a","i","n","f","a","l","l">>, <<"r","a","i","n">>, <<"p","r","e","c","i","p","i","t","a","t","i","o","n">> >>

GroundwaterWords == << <<"g","r","o","u","n","d","w","a","t","e","r">>, <<"w","a","t","e","r"," ","l","e","v","e","l">>, <<"g","w"," ","l","e","v","e","l">> >>

ComparisonWords == << <<"c","o","m","p","a","r","e">>, <<"c","o","m","p","a","r","i","s","o","n">>, <<"v","s">>, <<"v","e","r","s","u","s">> >>

TrendWords == << <<"t","r","e","n","d">>, <<"t","r","e","n","d","s">>, <<"o","v","e","r"," ","t","i","m","e">>, <<"c","h","a","n","g","e">> >>

DistrictWords == << <<"d","i","s","t","r","i","c","t">>, <<"d","i","s","t","r","i","c","t","s">>, <<"s","h","o","w"," ","m","e"," ","d","i","s","t","r","i","c","t","s">> >>

\* A variant of the chain with the rainfall rule, unguarded, ahead of the
\* future-prediction rule.
Route_RainfallFirst(user_input) ==
    LET user_input_lower == Lower(user_input)
    IN  IF AnyIn(GreetingWords, user_input_lower) THEN "greeting"
        ELSE IF AnyIn(HelpWords, user_input_lower) THEN "help"
        ELSE IF AnyIn(RainfallWords, user_input_lower) THEN "rainfall"
        ELSE IF AnyIn(FutureWords, user_input_lower) THEN "future_prediction"
        ELSE IF AnyIn(PredictWords, user_input_lower) THEN "ml_prediction"
        ELSE IF AnyIn(GroundwaterWords, user_input_lower) THEN "groundwater"
        ELSE IF AnyIn(ComparisonWords, user_input_lower) THEN "comparison"
        ELSE IF AnyIn(TrendWords, user_input_lower) THEN "trend"
        ELSE IF AnyIn(DistrictWords, user_input_lower) THEN "district"
        ELSE "default"

\* The handler the chain of if statements of generate_response returns from.
Route(user_input) ==
    LET user_input_lower == Lower(user_input)
    IN  IF AnyIn(GreetingWords, user_input_lower) THEN "greeting"
        ELSE IF AnyIn(HelpWords, user_input_lower) THEN "help"
        ELSE IF AnyIn(FutureWords, user_input_lower) THEN "future_prediction"
        ELSE IF AnyIn(PredictWords, user_input_lower) THEN "ml_prediction"
        ELSE IF AnyIn(RainfallWords, user_input_lower)
                    /\ ~AnyIn(FutureWords, user_input_lower) THEN "rainfall"
        ELSE IF AnyIn(GroundwaterWords, user_input_lower) THEN "groundwater"
        ELSE IF AnyIn(ComparisonWords, user_input_lower) THEN "comparison"
        ELSE IF AnyIn(TrendWords, user_input_lower) THEN "trend"
        ELSE IF AnyIn(DistrictWords, user_input_lower) THEN "district"
        ELSE IF AnyIn(FutureWords, user_input_lower) THEN "future_prediction"
        ELSE "default"

\* The answers the handler can return: one, or any of the three greetings.
\* The DataFrame objects.  The two tables of the store are self.rainfall and
\* self.groundwater; copy(), a selection data[mask], sort_values and tail
\* return a new DataFrame, and an assignment data[col] = ... writes into
\* the object data names.
Stores == { "self.rainfall", "self.groundwater" }

\* Were copy(), a selection, sort_values and tail to return the frame they
\* are applied to.
SameObject(obj) == obj

NewObject(obj) == "temporary"

Write(obj, column, dtype) == [ object |-> obj, column |-> column, dtype |-> dtype ]

\* The assignments of analyze_trends and predict_future_values to the frame
\* they are given: the conversion of date_col when it is not of a datetime
\* type, made on the argument itself before it is sorted, and the column
\* 'month' of the sorted frame, reached when value_col exists.
EngineWrites(obj, frame, rows, value_col, date_col) ==
    IF rows = <<>> THEN {}
    ELSE (IF date_col \in frame.datetime THEN {}
          ELSE { Write(obj, date_col, "datetime") })
         \cup (IF HasCol(frame, value_col)
               THEN { Write(NewObject(obj), "month", "int") }
               ELSE {})

\* The assignments of a handler: handle_future_prediction_query sets 'date'
\* in the frames get_rainfall_data and get_groundwater_data returned and
\* hands their tails to the engine; no other handler assigns to a frame.
HandlerWrites(handler, entities, rainfall, groundwater) ==
    LET state == entities.state
        district == entities.district
        rainfall_data == get_rainfall_data(rainfall, state, None)
        groundwater_data == get_groundwater_data(groundwater, state, district, None)
        rainfall_obj == NewObject("self.rainfall")
        groundwater_obj == NewObject("self.groundwater")
        dated(frame) == [ frame EXCEPT !.columns = @ \cup {"date"},
                                       !.datetime = @ \cup {"date"} ]
    IN  IF /\ handler = "future_prediction" /\ Truthy(state)
           /\ ~IsEmpty(rainfall) /\ ~IsEmpty(groundwater)
           /\ rainfall_data # <<>> /\ groundwater_data # <<>>
        THEN { Write(rainfall_obj, "date", "datetime"),
               Write(groundwater_obj, "date", "datetime") }
             \cup EngineWrites(NewObject(rainfall_obj), dated(rainfall),
                               TailRows(rainfall_data, FutureRows),
                               "rainfall_actual_mm", "date")
             \cup (IF HasCol(rainfall, "rainfall_actual_mm")
                   THEN EngineWrites(NewObject(groundwater_obj), dated(groundwater),
                                     TailRows(groundwater_data, FutureRows),
                                     "gw_level_m_bgl", "date")
                   ELSE {})
        ELSE {}

\* A table of the store after the assignments that landed on it.
StoreAfter(df, name, writes) ==
    LET mine == { w \in writes : w.object = name }
    IN  [ df EXCEPT !.columns = @ \cup { w.column : w \in mine },
                    !.datetime = (@ \ { w.column : w \in mine })
                                 \cup { w.column : w \in { v \in mine : v.dtype = "datetime" } } ]

Dispatch(handler, entities, rainfall, groundwater, model) ==
    CASE handler = "greeting" -> get_greeting_response
      [] handler = "help" -> { get_help_response }
      [] handler = "future_prediction" ->
             { handle_future_prediction_query(entities, rainfall, groundwater) }
      [] handler = "ml_prediction" ->
             { handle_prediction_query(entities, groundwater, model) }
      [] handler = "rainfall" -> { handle_rainfall_query(entities, rainfall) }
      [] handler = "groundwater" -> { handle_groundwater_query(entities, groundwater) }
      [] handler = "comparison" -> { handle_comparison_query }
      [] handler = "trend" -> { handle_trend_query(entities, rainfall, groundwater) }
      [] handler = "district" -> { handle_district_query(entities, groundwater) }
      [] OTHER -> { get_default_response }

----------------------------------------------------------------------------
(* The texts typed into the assistant.                                      *)

\* str(n) for n >= 0.
RECURSIVE FmtNat(_)
FmtNat(n) ==
    IF n < 10 THEN << Alphabet[OrdOf["0"] + n] >>
    ELSE FmtNat(n \div 10) \o << Alphabet[OrdOf["0"] + (n % 10)] >>

p_hello == <<"H","e","l","l","o">>
p_predict_delhi == <<"P","r","e","d","i","c","t"," ","g","r","o","u","n","d","w","a","t","e","r"," ","l","e","v","e","l"," ","f","o","r"," ","D","e","l","h","i"," ","w","i","t","h"," ","1","0","0","m","m"," ","r","a","i","n","f","a","l","l">>
p_groundwater_xyz == <<"G","r","o","u","n","d","w","a","t","e","r"," ","l","e","v","e","l","s"," ","i","n"," ","x","y","z">>
p_rainfall_maharashtra == <<"W","h","a","t","'","s"," ","t","h","e"," ","r","a","i","n","f","a","l","l"," ","i","n"," ","M","a","h","a","r","a","s","h","t","r","a","?">>
p_rainfall_delhi_month == <<"R","a","i","n","f","a","l","l"," ","i","n"," ","D","e","l","h","i"," ","f","o","r"," ","2","0","2","3","-","0","6">>
p_groundwater_mumbai_month == <<"G","r","o","u","n","d","w","a","t","e","r"," ","i","n"," ","M","u","m","b","a","i"," ","f","o","r"," ","2","0","2","3","-","0","6">>
p_future_rainfall == <<"F","u","t","u","r","e"," ","r","a","i","n","f","a","l","l"," ","f","o","r","e","c","a","s","t"," ","f","o","r"," ","M","a","h","a","r","a","s","h","t","r","a">>
p_districts == <<"S","h","o","w"," ","m","e"," ","d","i","s","t","r","i","c","t","s"," ","i","n"," ","M","a","h","a","r","a","s","h","t","r","a">>

\* Sentences quoted by the handlers' usage prompts, the help text and the demo.
Phrases ==
    { p_hello, p_predict_delhi, p_groundwater_xyz, p_rainfall_maharashtra,
      p_rainfall_delhi_month, p_groundwater_mumbai_month, p_future_rainfall,
      p_districts }

\* One word or phrase for each rule of the router, and two for none.
IntentWords ==
    { <<"h","e","y">>, <<"h","e","l","p">>, <<"f","o","r","e","c","a","s","t">>, <<"P","r","e","d","i","c","t">>, <<"r","a","i","n","f","a","l","l">>, <<"G","r","o","u","n","d","w","a","t","e","r"," ","l","e","v","e","l","s">>,
      <<"c","o","m","p","a","r","e">>, <<"t","r","e","n","d","s">>, <<"d","i","s","t","r","i","c","t","s">>, <<"s","h","o","w">>, <<"w","h","i","c","h">> }

\* What a question can be about: states, districts, periods, amounts.
Subjects ==
    { <<>>, <<"g","o","a">>, <<"G","O","A">>, <<"d","e","l","h","i">>, <<"g","o","a"," ","a","n","d"," ","d","e","l","h","i">>, <<"m","a","h","a","r","a","s","h","t","r","a">>, <<"x","y","z">>,
      <<"k","e","r","a","l","a">>, <<"p","a","n","a","j","i"," ","g","o","a">>, <<"g","o","a"," ","0","6","-","2","0","2","3">>, <<"g","o","a"," ","2","0","2","3","-","0","6">>, <<"g","o","a"," ","1","0","0","m","m">>,
      <<"g","o","a"," ","2","0","2","5">>, <<"g","o","a"," ","0">>, <<"g","o","a"," ","2","0","3","0">>, <<"G","o","a"," ","f","o","r"," ","1","3","-","2","0","2","3">>,
      <<"a","s","s","a","m">>, <<"a","s","s","a","m"," ","2","0","2","6">>, <<"b","i","h","a","r">> }

\* Integers written into a text, around the boundaries of the year range.
Amounts == { 0, 7, 100, 1999, 2000, 2015, 2024, 2026, 2029, 2030, 2031, 2099, 2100, 20245 }

AmountPrefixes == { <<>>, <<"r","a","i","n","f","a","l","l"," ","i","n"," ","g","o","a"," ">>, <<"r","a","i","n"," ">>, <<"f","o","r","e","c","a","s","t"," ","f","o","r"," ","g","o","a"," ">> }

AmountSuffixes == { <<>>, <<"m","m">>, <<" ","m","m">> }

\* Texts with several numbers, with decimals and with a range of years.
NumberTexts ==
    { <<"r","a","i","n"," ","2","0","2","4"," ","1","5","0","m","m">>, <<"r","a","i","n"," ","1","2",".","5"," ","m","m"," ","i","n"," ","2","0","2","4">>, <<"r","a","i","n"," ","2","0","2","4",".","5">>, <<"r","a","i","n"," ","2","0","3","0",".","5">>,
      <<"r","a","i","n"," ","2","0","1","6","-","1","7">>, <<"r","a","i","n"," ","2","0","2","4"," ","2","0","2","5">>, <<"r","a","i","n"," ","2","0","3","0",".","0"," ","7",".","5","0">> }

\* The questions of the demonstration script.
demo_questions ==
    { <<"H","e","l","l","o","!"," ","W","h","a","t"," ","c","a","n"," ","y","o","u"," ","h","e","l","p"," ","m","e"," ","w","i","t","h","?">>,
      <<"W","h","a","t","'","s"," ","t","h","e"," ","r","a","i","n","f","a","l","l"," ","i","n"," ","M","a","h","a","r","a","s","h","t","r","a","?">>,
      <<"S","h","o","w"," ","m","e"," ","g","r","o","u","n","d","w","a","t","e","r"," ","l","e","v","e","l","s"," ","i","n"," ","D","e","l","h","i">>,
      <<"P","r","e","d","i","c","t"," ","g","r","o","u","n","d","w","a","t","e","r"," ","l","e","v","e","l"," ","f","o","r"," ","K","a","r","n","a","t","a","k","a"," ","w","i","t","h"," ","1","5","0","m","m"," ","r","a","i","n","f","a","l","l">>,
      <<"S","h","o","w"," ","r","a","i","n","f","a","l","l"," ","t","r","e","n","d","s"," ","i","n"," ","T","a","m","i","l"," ","N","a","d","u">>,
      <<"W","h","i","c","h"," ","s","t","a","t","e","s"," ","a","r","e"," ","a","v","a","i","l","a","b","l","e","?">>,
      <<"H","e","l","p"," ","m","e"," ","u","n","d","e","r","s","t","a","n","d"," ","y","o","u","r"," ","f","e","a","t","u","r","e","s">> }

Texts ==
    Phrases
    \cup NumberTexts
    \cup demo_questions
    \cup { <<"i","s"," ","t","h","i","s"," ","t","h","e"," ","r","a","i","n","f","a","l","l"," ","o","f"," ","g","o","a">> }
    \cup { w \o <<" ","i","n"," ">> \o s : w \in IntentWords, s \in Subjects }
    \cup { w \o <<" ">> \o v \o <<" ","g","o","a">> : w \in IntentWords, v \in IntentWords }
    \cup { p \o FmtNat(n) \o x : p \in AmountPrefixes, n \in Amounts, x \in AmountSuffixes }

----------------------------------------------------------------------------
(* The state of the program.                                                *)

VARIABLES
    pc,          \* "start" before GroundwaterChatbot() is constructed, then
                 \* "ready" for a question or "answered"
    disk,        \* the files the constructor finds
    rainfall,    \* self.rainfall
    groundwater, \* self.groundwater
    model,       \* self.model
    session,     \* st.session_state: messages and user_context
    lastInput,   \* the text of the latest generate_response call
    entities,    \* its extract_entities result
    handler,     \* the handler it returned from
    response,    \* what it returned, or the exception that left it
    direct       \* the latest call of a method of the engine or of the
                 \* predictor adapter made on the chatbot itself

vars == << pc, disk, rainfall, groundwater, model, session, lastInput, entities,
           handler, response, direct >>

NoEntities ==
    [ state |-> None, district |-> None, year |-> None, month |-> None,
      number |-> NoNumber ]

NoSession == [ keys |-> {}, messages |-> <<>>, user_context |-> NoEntities ]

\* setup_session_state
setup_session_state(st) ==
    [ keys |-> st.keys \cup {"messages", "user_context"},
      messages |-> IF "messages" \in st.keys THEN st.messages ELSE <<>>,
      user_context |->
          IF "user_context" \in st.keys THEN st.user_context
          ELSE [ current_state |-> None, current_district |-> None,
                 current_year |-> None, current_month |-> None ] ]

\* The result of predict_future_values for an empty series.
NoProjection == [ predictions |-> <<>>, confidence |-> 0, trend_analysis |-> EmptyDict ]

NoDirect ==
    [ method |-> "none", object |-> "none", data |-> <<>>, value_col |-> "",
      date_col |-> "", months |-> 0,
      rainfall_value |-> NoNumber, lag_gw |-> 0,
      summary |-> EmptyDict, projection |-> NoProjection, prediction |-> NoValue,
      exc |-> "none" ]

\* The series a caller has at hand: the rows get_rainfall_data and
\* get_groundwater_data return for a state, none for a state without rows.
SeriesStates == { s_goa, s_assam, s_kerala, s_bihar, <<"x","y","z">> }

\* A caller also has the two tables themselves, self.rainfall and
\* self.groundwater.
Series ==
    { [ object |-> NewObject("self.rainfall"), frame |-> rainfall,
        value_col |-> "rainfall_actual_mm",
        rows |-> get_rainfall_data(rainfall, st, None) ] : st \in SeriesStates }
    \cup { [ object |-> NewObject("self.groundwater"), frame |-> groundwater,
             value_col |-> "gw_level_m_bgl",
             rows |-> get_groundwater_data(groundwater, st, None, None) ] :
             st \in SeriesStates }
    \cup { [ object |-> "self.rainfall", frame |-> rainfall,
             value_col |-> "rainfall_actual_mm", rows |-> rainfall.rows ],
           [ object |-> "self.groundwater", frame |-> groundwater,
             value_col |-> "gw_level_m_bgl", rows |-> groundwater.rows ] }

\* The date columns of a loaded table: 'date', of a datetime type, and
\* 'year_month', of strings.
DateCols == { "date", "year_month" }

\* data[value_col] of a frame without that column raises KeyError.
MissingColumn(series) == series.rows # <<>> /\ ~HasCol(series.frame, series.value_col)

DirectMonths == { 1, 12 }

DirectRainfall == { [ int |-> 0, frac |-> <<>> ], [ int |-> 100, frac |-> <<>> ] }

DirectLag == { 5, 30 }

Init ==
    /\ pc = "start"
    /\ disk \in Disks
    /\ rainfall = EmptyFrame
    /\ groundwater = EmptyFrame
    /\ model = "None"
    /\ session = NoSession
    /\ lastInput = <<>>
    /\ entities = NoEntities
    /\ handler = "none"
    /\ response = Resp("none")
    /\ direct = NoDirect

\* GroundwaterChatbot.__init__
Construct ==
    /\ pc = "start"
    /\ pc' = "ready"
    /\ rainfall' = load_data(disk).rainfall
    /\ groundwater' = load_data(disk).groundwater
    /\ model' = load_model(disk)
    /\ session' = setup_session_state(session)
    /\ UNCHANGED << disk, lastInput, entities, handler, response, direct >>

\* One call generate_response(user_input) on the constructed chatbot.
Call(user_input) ==
    LET e == extract_entities(user_input, rainfall, groundwater)
        h == Route(user_input)
    IN  /\ lastInput' = user_input
        /\ entities' = e
        /\ handler' = h
        /\ response' \in Dispatch(h, e, rainfall, groundwater, model)
        /\ rainfall' = StoreAfter(rainfall, "self.rainfall",
                                  HandlerWrites(h, e, rainfall, groundwater))
        /\ groundwater' = StoreAfter(groundwater, "self.groundwater",
                                     HandlerWrites(h, e, rainfall, groundwater))
        /\ pc' = "answered"
        /\ UNCHANGED << disk, model, session, direct >>

\* A question is asked.
GenerateResponse(user_input) == pc = "ready" /\ Call(user_input)

\* The question just answered is asked once more.
AskAgain == pc = "answered" /\ Call(lastInput)

\* The two tables after a call of the engine on a series.
EngineStore(series, date_col) ==
    LET writes == EngineWrites(series.object, series.frame, series.rows,
                               series.value_col, date_col)
    IN  /\ rainfall' = StoreAfter(rainfall, "self.rainfall", writes)
        /\ groundwater' = StoreAfter(groundwater, "self.groundwater", writes)

\* One call analyze_trends(data, value_col, date_col) on the chatbot.
AnalyzeTrends(series, date_col) ==
    LET call == [ NoDirect EXCEPT !.method = "analyze_trends",
                                  !.object = series.object, !.data = series.rows,
                                  !.value_col = series.value_col,
                                  !.date_col = date_col ]
    IN  /\ pc = "ready"
        /\ pc' = "called"
        /\ direct' =
               IF MissingColumn(series)
               THEN [ call EXCEPT !.exc = "KeyError" ]
               ELSE [ call EXCEPT
                        !.summary = analyze_trends(series.rows, series.value_col) ]
        /\ EngineStore(series, date_col)
        /\ UNCHANGED << disk, model, session, lastInput, entities, handler, response >>

\* One call predict_future_values(data, value_col, date_col, months_ahead).
PredictFutureValues(series, date_col, months_ahead) ==
    LET call == [ NoDirect EXCEPT !.method = "predict_future_values",
                                  !.object = series.object, !.data = series.rows,
                                  !.value_col = series.value_col,
                                  !.date_col = date_col, !.months = months_ahead ]
    IN  /\ pc = "ready"
        /\ pc' = "called"
        /\ direct' =
               IF MissingColumn(series)
               THEN [ call EXCEPT !.exc = "KeyError" ]
               ELSE [ call EXCEPT
                        !.projection =
                            predict_future_values(series.rows, series.value_col,
                                                  months_ahead) ]
        /\ EngineStore(series, date_col)
        /\ UNCHANGED << disk, model, session, lastInput, entities, handler, response >>

\* One call predict_groundwater(state, rainfall_value, lag_gw).
PredictGroundwater(rainfall_value, lag_gw) ==
    /\ pc = "ready"
    /\ pc' = "called"
    /\ direct' = [ NoDirect EXCEPT !.method = "predict_groundwater",
                                   !.rainfall_value = rainfall_value, !.lag_gw = lag_gw,
                                   !.prediction =
                                       predict_groundwater(model, rainfall_value, lag_gw) ]
    /\ UNCHANGED << disk, rainfall, groundwater, model, session, lastInput, entities,
                    handler, response >>

\* The answer has been shown, or the call has returned; the chatbot waits
\* for the next question.  The chatbot is followed as long as its tables are
\* the loaded ones: the answers over a table whose column has been converted
\* in place are not part of the model.
NextTurn ==
    /\ pc \in { "answered", "called" }
    /\ rainfall = load_data(disk).rainfall
    /\ groundwater = load_data(disk).groundwater
    /\ pc' = "ready"
    /\ lastInput' = <<>>
    /\ entities' = NoEntities
    /\ handler' = "none"
    /\ response' = Resp("none")
    /\ direct' = NoDirect
    /\ UNCHANGED << disk, rainfall, groundwater, model, session >>

Next ==
    \/ Construct
    \/ \E t \in Texts : GenerateResponse(t)
    \/ AskAgain
    \/ \E series \in Series, date_col \in DateCols : AnalyzeTrends(series, date_col)
    \/ \E series \in Series, date_col \in DateCols, months_ahead \in DirectMonths :
           PredictFutureValues(series, date_col, months_ahead)
    \/ \E rainfall_value \in DirectRainfall, lag_gw \in DirectLag :
           PredictGroundwater(rainfall_value, lag_gw)
    \/ NextTurn

Spec == Init /\ [][Next]_vars

----------------------------------------------------------------------------
(* display_chat_interface.  Streamlit runs main() anew for every            *)
(* interaction: the chatbot is constructed again while st.session_state     *)
(* lives on, so every interaction below ends where the constructor starts.  *)

\* Entries that st.session_state.messages may hold in the model.
MaxMessages == 4

Message(role, text, answer) == [ role |-> role, text |-> text, answer |-> answer ]

\* The user entry, the call of generate_response and, when the call
\* returns, the assistant entry; an exception leaves display_chat_interface
\* after the user entry has been appended.
Exchange(query) ==
    LET e == extract_entities(query, rainfall, groundwater)
        h == Route(query)
        user == Message("user", query, Resp("none"))
    IN  /\ Len(session.messages) + 2 <= MaxMessages
        /\ \E r \in Dispatch(h, e, rainfall, groundwater, model) :
               session' = [ session EXCEPT !.messages =
                              IF r.exc # "none" THEN Append(@, user)
                              ELSE @ \o << user, Message("assistant", <<>>, r) >> ]
        /\ rainfall' = StoreAfter(rainfall, "self.rainfall",
                                  HandlerWrites(h, e, rainfall, groundwater))
        /\ groundwater' = StoreAfter(groundwater, "self.groundwater",
                                     HandlerWrites(h, e, rainfall, groundwater))
        /\ pc' = "start"
        /\ UNCHANGED << disk, model, lastInput, entities, handler, response, direct >>

\* What the user types into st.chat_input.
ChatPrompts == { p_hello, <<"r","a","i","n","f","a","l","l"," ","i","n"," ","g","o","a">>, <<"f","o","r","e","c","a","s","t"," ","i","n"," ","g","o","a">> }

ChatInput(prompt) == pc = "ready" /\ Exchange(prompt)

\* The state selector: "All States" and the available states, of which the
\* user picks one of PickedStates; the district selector: "All Districts"
\* and the districts of the state, of which the user picks the first.
AllStates == <<"A","l","l"," ","S","t","a","t","e","s">>

AllDistricts == <<"A","l","l"," ","D","i","s","t","r","i","c","t","s">>

PickedStates == { s_goa, s_delhi }

StateChoices ==
    { AllStates }
    \cup { s \in PickedStates :
             \E i \in 1..Len(get_available_states(rainfall)) :
                 get_available_states(rainfall)[i] = s }

DistrictChoices(selected_state) ==
    { AllDistricts }
    \cup (IF selected_state = AllStates
             \/ get_available_districts(groundwater, selected_state) = <<>>
          THEN {}
          ELSE { get_available_districts(groundwater, selected_state)[1] })

Buttons == { "quick_rainfall", "quick_groundwater", "quick_prediction", "quick_trends" }

\* The query a quick-query button builds.
QuickQueryText(button, selected_state, selected_district) ==
    CASE button = "quick_rainfall" -> <<"S","h","o","w"," ","r","a","i","n","f","a","l","l"," ","d","a","t","a"," ","f","o","r"," ">> \o selected_state
      [] button = "quick_groundwater" ->
             <<"S","h","o","w"," ","g","r","o","u","n","d","w","a","t","e","r"," ","l","e","v","e","l","s"," ","i","n"," ">> \o selected_state
                 \o (IF selected_district # AllDistricts
                     THEN <<","," ">> \o selected_district ELSE <<>>)
      [] button = "quick_prediction" ->
             IF selected_district # AllDistricts
             THEN <<"P","r","e","d","i","c","t"," ","g","r","o","u","n","d","w","a","t","e","r"," ","l","e","v","e","l"," ","f","o","r"," ">> \o selected_district \o <<","," ">>
                      \o selected_state \o <<" ","w","i","t","h"," ","1","0","0","m","m"," ","r","a","i","n","f","a","l","l">>
             ELSE <<"P","r","e","d","i","c","t"," ","g","r","o","u","n","d","w","a","t","e","r"," ","l","e","v","e","l"," ","f","o","r"," ">> \o selected_state
                      \o <<" ","w","i","t","h"," ","1","0","0","m","m"," ","r","a","i","n","f","a","l","l">>
      [] OTHER -> <<"S","h","o","w"," ","t","r","e","n","d","s"," ","f","o","r"," ">> \o selected_state

\* A press of a quick-query button: a warning when no state is selected.
QuickQuery(button, selected_state, selected_district) ==
    /\ pc = "ready"
    /\ IF selected_state = AllStates
       THEN /\ pc' = "start"
            /\ UNCHANGED << disk, rainfall, groundwater, model, session, lastInput,
                            entities, handler, response, direct >>
       ELSE Exchange(QuickQueryText(button, selected_state, selected_district))

\* A press of the clear-chat button.
ClearChat ==
    /\ pc = "ready"
    /\ session' = [ session EXCEPT !.messages = <<>> ]
    /\ pc' = "start"
    /\ UNCHANGED << disk, rainfall, groundwater, model, lastInput, entities, handler,
                    response, direct >>

NextChat ==
    \/ Construct
    \/ \E prompt \in ChatPrompts : ChatInput(prompt)
    \/ \E button \in Buttons, selected_state \in StateChoices :
           \E selected_district \in DistrictChoices(selected_state) :
               QuickQuery(button, selected_state, selected_district)
    \/ ClearChat

SpecChat == Init /\ [][NextChat]_vars

----------------------------------------------------------------------------
(* Vocabulary of the properties below.                                      *)

Answered == pc = "answered"

Raised == response.exc # "none"

TextLower == Lower(lastInput)

\* The state names of the loaded rainfall table.
StateNames ==
    { n \in { rainfall.rows[i].state_name : i \in 1..Len(rainfall.rows) } : n # <<>> }

StateNamesIn(text_lower) == { n \in StateNames : Contains(text_lower, n) }

\* The rules of the router in the order of precedence, and their key words.
RuleOrder ==
    << "greeting", "help", "future_prediction", "ml_prediction", "rainfall",
       "groundwater", "comparison", "trend", "district" >>

RuleWords(rule) ==
    CASE rule = "greeting" -> GreetingWords
      [] rule = "help" -> HelpWords
      [] rule = "future_prediction" -> FutureWords
      [] rule = "ml_prediction" -> PredictWords
      [] rule = "rainfall" -> RainfallWords
      [] rule = "groundwater" -> GroundwaterWords
      [] rule = "comparison" -> ComparisonWords
      [] rule = "trend" -> TrendWords
      [] rule = "district" -> DistrictWords

RulesHit(text_lower) ==
    { i \in 1..Len(RuleOrder) : AnyIn(RuleWords(RuleOrder[i]), text_lower) }

\* The answers that are built by each handler.
KindsOf(h) ==
    CASE h = "greeting" -> { "greeting" }
      [] h = "help" -> { "help" }
      [] h = "future_prediction" -> { "future", "future_insufficient", "future_usage" }
      [] h = "ml_prediction" ->
             { "model_unavailable", "prediction", "prediction_failed",
               "prediction_nodata", "prediction_usage" }
      [] h = "rainfall" ->
             { "rainfall_period", "rainfall_recent", "rainfall_nodata", "rainfall_usage" }
      [] h = "groundwater" ->
             { "groundwater_period", "groundwater_recent", "groundwater_nodata",
               "groundwater_usage" }
      [] h = "comparison" -> { "comparison" }
      [] h = "trend" -> { "trend", "trend_insufficient", "trend_usage" }
      [] h = "district" -> { "districts", "districts_none", "districts_usage" }
      [] h = "default" -> { "default" }

\* The handlers that need a state, and the usage prompt of each.
StateHandlers ==
    { "rainfall", "groundwater", "ml_prediction", "trend", "district",
      "future_prediction" }

UsageOf(h) ==
    CASE h = "rainfall" -> "rainfall_usage"
      [] h = "groundwater" -> "groundwater_usage"
      [] h = "ml_prediction" -> "prediction_usage"
      [] h = "trend" -> "trend_usage"
      [] h = "district" -> "districts_usage"
      [] h = "future_prediction" -> "future_usage"

----------------------------------------------------------------------------
(* C1.  generate_response is total: whatever the text, the tables left by   *)
(* load_data and the predictor, the call returns an answer and raises no    *)
(* exception.                                                               *)
C1_Total == Answered => ~Raised

C3_SameAnswer ==
    [][ ( /\ pc = "answered" /\ pc' = "answered"
          /\ lastInput' = lastInput
          /\ rainfall' = rainfall /\ groundwater' = groundwater /\ model' = model )
        => response' = response ]_vars

(* C4.  Without a predictor (model is None) the text "Predict groundwater   *)
(* level for Delhi with 100mm rainfall" is answered by the model-unavailable*)
(* message of handle_prediction_query, and nothing is raised.               *)
C4_ModelUnavailable ==
    (Answered /\ model = "None" /\ lastInput = p_predict_delhi) =>
        (~Raised /\ response.kind = "model_unavailable")

\* No groundwater row names the district xyz, under any state.
NoXyzDistrict ==
    \A i \in 1..Len(groundwater.rows) : groundwater.rows[i].district_name # <<"x","y","z">>

\* The answer names xyz as its location.
MentionsXyz == response.state = <<"x","y","z">> \/ response.district = <<"x","y","z">>

(* C5, as claimed.  With no groundwater row for a district xyz, "Groundwater*)
(* levels in xyz" is answered by the no-data message, which mentions xyz,   *)
(* and the predictor is not called.                                         *)
C5_NoDataForXyz ==
    (Answered /\ lastInput = p_groundwater_xyz /\ NoXyzDistrict /\ ~IsEmpty(groundwater)) =>
        /\ response.kind = "groundwater_nodata"
        /\ MentionsXyz
        /\ response.calls = <<>>

(* C5, amended.  With no groundwater row for a district xyz, "Groundwater   *)
(* levels in xyz" is answered by the usage prompt of the groundwater        *)
(* handler, which does not mention xyz, unless xyz is a state name of the   *)
(* rainfall table: then by the no-data message for that state.  The         *)
(* predictor is not called and nothing is raised.                           *)
C5_UsagePromptForXyz ==
    (Answered /\ lastInput = p_groundwater_xyz /\ NoXyzDistrict) =>
        /\ ~Raised
        /\ response.calls = <<>>
        /\ IF <<"x","y","z">> \in StateNames
           THEN response.kind = "groundwater_nodata" /\ MentionsXyz
           ELSE response.kind = "groundwater_usage" /\ ~MentionsXyz

C5_Witness ==
    /\ Answered /\ lastInput = p_groundwater_xyz /\ NoXyzDistrict
    /\ StateNames # {} /\ <<"x","y","z">> \notin StateNames
    /\ response.kind = "groundwater_usage"

(* C6, as claimed.  For every state name S of the vocabulary and every text *)
(* that contains S in any letter case, other state names or not, the        *)
(* extracted state is S.                                                    *)
C6_EveryStateFound ==
    Answered => \A S \in StateNamesIn(TextLower) : entities.state = S

(* C6, amended.  The extracted state is the first in alphabetical order of  *)
(* the state names the lower-cased text contains (so it is S when S is the  *)
(* only one), and is unset when the text contains none.                     *)
C6_FirstStateFound ==
    Answered =>
        LET hits == StateNamesIn(TextLower)
        IN  IF hits = {} THEN entities.state = None
            ELSE /\ entities.state \in hits
                 /\ \A S \in hits : S = entities.state \/ StrLess(entities.state, S)

C6_Witness ==
    /\ Answered
    /\ StateNamesIn(TextLower) = { s_goa, s_delhi }
    /\ entities.state = s_delhi

\* The places where a run of digits starts, and the digits of the first run.
RunStarts(t) == { i \in 1..Len(t) : t[i] \in Digits /\ (i = 1 \/ t[i - 1] \notin Digits) }

FirstRun(t) ==
    LET i == CHOOSE j \in RunStarts(t) : \A k \in RunStarts(t) : j <= k
    IN  SubSeq(t, i, DigitRunEnd(t, i))

\* The first run of digits is a word of its own: no letter, digit or
\* underscore next to it.
FirstRunAlone(t) ==
    LET i == CHOOSE j \in RunStarts(t) : \A k \in RunStarts(t) : j <= k
        e == DigitRunEnd(t, i)
    IN  (i = 1 \/ ~IsWordChar(t[i - 1])) /\ (e = Len(t) \/ ~IsWordChar(t[e + 1]))

Float(n) == [ int |-> n, frac |-> <<>> ]

(* C7, as claimed.  An integer N < 2000 or N > 2029 that is the only        *)
(* numeric token of the text is extracted as number, and year stays unset;  *)
(* a 4-digit N in 2000..2029 is extracted as year and not as number.        *)
C7_NumberOrYear ==
    (Answered /\ Cardinality(RunStarts(lastInput)) = 1) =>
        LET d == FirstRun(lastInput)
            N == ParseInt(d)
        IN  /\ (N < 2000 \/ N > 2029) =>
                   entities.number = Float(N) /\ entities.year = None
            /\ (N >= 2000 /\ N <= 2029 /\ Len(d) = 4) =>
                   entities.year = d /\ entities.number = NoNumber

(* What extract_entities does with a text whose only run of digits is the   *)
(* integer N >= 0: number is N exactly when N < 2000 or N > 2030, and is    *)
(* unset otherwise; year is the four digits exactly when N is written 20dd  *)
(* (2000 to 2099) with no letter, digit or underscore next to it.  So 2030  *)
(* is a year only, and 2031..2099 are read as a year and as a number.       *)
NumberAndYearAsRead ==
    (Answered /\ Cardinality(RunStarts(lastInput)) = 1) =>
        LET d == FirstRun(lastInput)
            N == ParseInt(d)
        IN  /\ entities.number = IF N < 2000 \/ N > 2030 THEN Float(N) ELSE NoNumber
            /\ entities.year =
                   IF Len(d) = 4 /\ d[1] = "2" /\ d[2] = "0" /\ FirstRunAlone(lastInput)
                   THEN d ELSE None

ReadTwice ==
    /\ Answered /\ Cardinality(RunStarts(lastInput)) = 1
    /\ ParseInt(FirstRun(lastInput)) = 2031
    /\ entities.number = Float(2031)
    /\ entities.year = FirstRun(lastInput)

\* The rows the rainfall or the groundwater handler filters for its answer.
FilteredRows ==
    IF handler = "rainfall"
    THEN SelectSeq(rainfall.rows, LAMBDA r : r.state_name = entities.state)
    ELSE SelectSeq(groundwater.rows,
                   LAMBDA r : /\ r.state_name = entities.state
                              /\ Truthy(entities.district) =>
                                     r.district_name = entities.district)

MetricOf(r) == IF handler = "rainfall" THEN r.rainfall_actual_mm ELSE r.gw_level_m_bgl

\* The mean, in hundredths, of the metric over the rows of a set of periods.
MeanOver(rows, periods) ==
    LET in == SelectSeq(rows, LAMBDA r : r.year_month \in periods)
    IN  Num(RoundDiv(100 * SumSeq([ i \in 1..Len(in) |-> MetricOf(in[i]) ]), Len(in)))

PeriodsOf(rows) == { rows[i].year_month : i \in 1..Len(rows) }

\* The n most recent periods of a set of periods (all, if it has fewer).
MostRecent(periods, n) ==
    { p \in periods : Cardinality({ q \in periods : StrLess(p, q) }) < n }

(* C8.  With a state, no period and a non-empty filtered table, the         *)
(* rainfall and the groundwater handler report the mean of the metric over  *)
(* the 12 most recent periods of the filtered rows (all, if fewer), and the *)
(* label of the latest period, also with several rows in a period.          *)
C8_MeanOfRecentPeriods ==
    ( /\ Answered /\ handler \in { "rainfall", "groundwater" } /\ ~Raised
      /\ Truthy(entities.state) /\ ~Truthy(entities.month)
      /\ FilteredRows # <<>> ) =>
        LET periods == PeriodsOf(FilteredRows)
        IN  /\ response.value = MeanOver(FilteredRows, MostRecent(periods, 12))
            /\ response.latest \in MostRecent(periods, 1)

p_month_first == <<"0","6","-","2","0","2","3">>
p_year_first == <<"2","0","2","3","-","0","6">>

(* C9.  When the text names a state and a period, written MM-YYYY or        *)
(* YYYY-MM, the rainfall and the groundwater handler answer for that period *)
(* (the mean of its rows, or the no-data message), never with the mean of   *)
(* the recent periods.                                                      *)
C9_AnswerForThePeriod ==
    ( /\ Answered /\ handler \in { "rainfall", "groundwater" } /\ ~Raised
      /\ Truthy(entities.state)
      /\ Contains(lastInput, p_month_first) \/ Contains(lastInput, p_year_first) ) =>
        IF p_year_first \in PeriodsOf(FilteredRows)
        THEN /\ response.kind = handler \o "_period"
             /\ response.period = p_year_first
             /\ response.value = MeanOver(FilteredRows, { p_year_first })
        ELSE response.kind = handler \o "_nodata"

(* C10, as claimed.  Each handler that needs a state returns its own usage  *)
(* prompt, and raises nothing, whenever no state was extracted, whatever    *)
(* the tables and the predictor.                                            *)
C10_UsagePrompt ==
    (Answered /\ handler \in StateHandlers /\ ~Truthy(entities.state)) =>
        (~Raised /\ response.kind = UsageOf(handler))

(* C10, amended.  Whenever no state was extracted, each handler that needs  *)
(* a state raises nothing and returns its own usage prompt, except that     *)
(* handle_prediction_query without a predictor (model is None) returns the  *)
(* model-unavailable message.                                               *)
C10_UsagePromptOrUnavailable ==
    (Answered /\ handler \in StateHandlers /\ ~Truthy(entities.state)) =>
        /\ ~Raised
        /\ response.kind = IF handler = "ml_prediction" /\ model = "None"
                           THEN "model_unavailable" ELSE UsageOf(handler)

C10_Witness ==
    /\ Answered /\ handler = "ml_prediction" /\ ~Truthy(entities.state)
    /\ ~IsEmpty(rainfall) /\ model = "regressor"
    /\ response.kind = "prediction_usage"

-----------------------------------------------------------------------------
(* C11.  In handle_prediction_query with the model loaded: the usage prompt *)
(* is returned exactly when the state or the number is absent (a number of  *)
(* zero counts as present); otherwise, with no groundwater row for the      *)
(* state/district, the 'No Historical Data' failure is returned and the     *)
(* predictor is not called; otherwise the predictor is called exactly once  *)
(* with the number and the level of a row of the latest period.             *)
C11_PredictionCases ==
    (Answered /\ handler = "ml_prediction" /\ model # "None" /\ ~Raised) =>
        IF ~Truthy(entities.state) \/ entities.number = NoNumber
        THEN response.kind = "prediction_usage"
        ELSE IF FilteredRows = <<>>
        THEN response.kind = "prediction_nodata" /\ response.calls = <<>>
        ELSE /\ response.kind \in { "prediction", "prediction_failed" }
             /\ Len(response.calls) = 1
             /\ response.calls[1].rainfall = entities.number
             /\ \E i \in 1..Len(FilteredRows) :
                    /\ FilteredRows[i].year_month \in MostRecent(PeriodsOf(FilteredRows), 1)
                    /\ response.calls[1].lag = FilteredRows[i].gw_level_m_bgl

\* The same with Python's truth test of the number: 0.0 counts as absent.
PredictionCasesZeroAbsent ==
    (Answered /\ handler = "ml_prediction" /\ model # "None" /\ ~Raised) =>
        IF ~Truthy(entities.state) \/ ~NumberTruthy(entities.number)
        THEN response.kind = "prediction_usage"
        ELSE IF FilteredRows = <<>>
        THEN response.kind = "prediction_nodata" /\ response.calls = <<>>
        ELSE /\ response.kind \in { "prediction", "prediction_failed" }
             /\ Len(response.calls) = 1
             /\ response.calls[1].rainfall = entities.number
             /\ \E i \in 1..Len(FilteredRows) :
                    /\ FilteredRows[i].year_month \in MostRecent(PeriodsOf(FilteredRows), 1)
                    /\ response.calls[1].lag = FilteredRows[i].gw_level_m_bgl

Clamp(x, lo, hi) == IF x < lo THEN lo ELSE IF x > hi THEN hi ELSE x

(* C12.  In an answer of handle_future_prediction_query the horizon is 12   *)
(* without a year and (year - 2024) * 12 clamped into 1..60 with one: a     *)
(* year of 2024 or earlier gives 1, of 2029 or later gives 60; and each of  *)
(* the two projections has exactly that many points.                        *)
C12_Horizon ==
    (Answered /\ handler = "future_prediction" /\ response.kind = "future") =>
        LET year == entities.year
        IN  /\ response.months =
                   IF year = None THEN 12
                   ELSE Clamp((ParseInt(year) - 2024) * 12, 1, 60)
            /\ response.months \in 1..60
            /\ (year # None /\ ParseInt(year) <= 2024) => response.months = 1
            /\ (year # None /\ ParseInt(year) >= 2029) => response.months = 60
            /\ Len(response.forecast[1]) = response.months
            /\ Len(response.forecast[2]) = response.months

C12_Witness ==
    /\ Answered /\ handler = "future_prediction" /\ response.kind = "future"
    /\ entities.year = <<"2","0","2","6">>
    /\ response.months = 24
    /\ Len(response.forecast[1]) = 24 /\ Len(response.forecast[2]) = 24

\* The limits of the horizon are met: a year before 2024 and one after 2029.
HorizonLimits ==
    /\ Answered /\ response.kind = "future"
    /\ \/ entities.year = <<"2","0","1","5">> /\ response.months = 1
       \/ entities.year = <<"2","0","9","9">> /\ response.months = 60

\* The projections of an answer of handle_future_prediction_query.
Projections ==
    IF Answered /\ response.kind = "future"
    THEN { response.forecast[1], response.forecast[2] } ELSE {}

(* C13.  In every projection the confidence of the i-th point, in           *)
(* hundredths, is max(30, 100 - 5 * i), for i up to 60; the sequence of     *)
(* confidences never rises, and stays within 0.3 .. 1.                      *)
C13_Confidence ==
    \A p \in Projections :
        /\ Len(p) <= 60
        /\ \A i \in 1..Len(p) :
               /\ p[i].confidence = (IF 100 - 5 * i < 30 THEN 30 ELSE 100 - 5 * i)
               /\ p[i].confidence >= 30 /\ p[i].confidence <= 100
               /\ i > 1 => p[i].confidence <= p[i - 1].confidence

C13_Witness ==
    \E p \in Projections :
        Len(p) = 60 /\ p[1].confidence = 95 /\ p[14].confidence = 30 /\ p[60].confidence = 30

(* C14, as claimed.  In every projection the confidence strictly decreases: *)
(* for all steps i < j, confidence(j) < confidence(i).                      *)
C14_StrictlyDecreasing ==
    \A p \in Projections :
        \A i, j \in 1..Len(p) : i < j => p[j].confidence < p[i].confidence

(* C14, amended.  In every projection the confidence strictly decreases up  *)
(* to step 14 and is 0.3 from step 14 on: for all steps i < j,              *)
(* confidence(j) < confidence(i) if i < 14, and confidence(j) =             *)
(* confidence(i) = 0.3 otherwise.                                           *)
C14_DecreasingToFloor ==
    \A p \in Projections :
        \A i, j \in 1..Len(p) :
            i < j => IF i < 14
                     THEN p[j].confidence < p[i].confidence
                     ELSE p[j].confidence = 30 /\ p[i].confidence = 30

C14_Witness ==
    \E p \in Projections :
        /\ Len(p) = 24
        /\ p[13].confidence > p[14].confidence
        /\ p[14].confidence = p[15].confidence

\* The two series an answer of handle_future_prediction_query projects from.
FutureInputs ==
    << TailRows(get_rainfall_data(rainfall, entities.state, None), FutureRows),
       TailRows(get_groundwater_data(groundwater, entities.state, entities.district, None),
                FutureRows) >>

\* The months since year 0 of a period "YYYY-MM".
MonthIndex(ym) == ParseInt(SubSeq(ym, 1, 4)) * 12 + ParseInt(SubSeq(ym, 6, 7)) - 1

\* The latest period of a non-empty series.
Anchor(rows) ==
    CHOOSE p \in PeriodsOf(rows) : \A q \in PeriodsOf(rows) : MonthIndex(q) <= MonthIndex(p)

\* ym is written YYYY-MM with a month 01..12.
Canonical(ym) ==
    /\ Len(ym) = 7 /\ ym[5] = "-"
    /\ \A k \in { 1, 2, 3, 4, 6, 7 } : ym[k] \in Digits
    /\ ParseInt(SubSeq(ym, 6, 7)) \in 1..12

(* C15.  The i-th projected period is the latest observed period of the     *)
(* series advanced by exactly i calendar months, December rolling over to   *)
(* January of the next year; so the periods are consecutive and ascending,  *)
(* and each is written YYYY-MM.                                             *)
C15_ConsecutiveMonths ==
    (Answered /\ response.kind = "future") =>
        \A k \in 1..2 :
            LET p == response.forecast[k]
                anchor == Anchor(FutureInputs[k])
            IN  \A i \in 1..Len(p) :
                    /\ Canonical(p[i].date)
                    /\ MonthIndex(p[i].date) = MonthIndex(anchor) + i
                    /\ i > 1 => MonthIndex(p[i].date) = MonthIndex(p[i - 1].date) + 1

p_december == <<"2","0","2","3","-","1","2">>
p_january == <<"2","0","2","4","-","0","1">>

C15_Witness ==
    /\ Answered /\ response.kind = "future"
    /\ Anchor(FutureInputs[1]) = p_december
    /\ Len(response.forecast[1]) = 12
    /\ response.forecast[1][1].date = p_january
    /\ response.forecast[1][12].date = <<"2","0","2","4","-","1","2">>

\* The value column of the k-th series of a future answer.
FutureColumn(k) == IF k = 1 THEN "rainfall_actual_mm" ELSE "gw_level_m_bgl"

RECURSIVE Produced(_, _, _, _, _)
\* v[i] of the claimed recurrence, in units of 0.0001: v[0] is the last
\* observed value v0, v[i] = (v[i-1] + trend * i) * m[i], m[i] the seasonal
\* multiplier of the month i months after the anchor period.
Produced(v0, trend, seasonality, anchor, i) ==
    IF i = 0 THEN 10000 * v0
    ELSE TimesFactor(Produced(v0, trend, seasonality, anchor, i - 1) + trend * i,
                     SeasonalFactor(seasonality, ((MonthIndex(anchor) + i) % 12) + 1))

(* C16.  In every projection the value of step i is the rounding to two     *)
(* places of v[i] = (v[i-1] + trend * i) * m[i], v[0] being the value of a  *)
(* row of the latest observed period and v[i-1] the unrounded value of the  *)
(* step before; with seasonality 0 it is anchor + trend * i * (i + 1) / 2.  *)
C16_Recurrence ==
    (Answered /\ response.kind = "future") =>
        \A k \in 1..2 :
            LET p == response.forecast[k]
                rows == FutureInputs[k]
                anchor == Anchor(rows)
                summary == analyze_trends(rows, FutureColumn(k))
            IN  \E r \in 1..Len(rows) :
                    /\ rows[r].year_month = anchor
                    /\ \A i \in 1..Len(p) :
                           /\ p[i].value =
                                  RoundDivSigned(Produced(rows[r][FutureColumn(k)], summary.trend,
                                                          summary.seasonality, anchor, i), 100)
                           /\ summary.seasonality = 0 =>
                                  p[i].value =
                                      RoundDivSigned(10000 * rows[r][FutureColumn(k)]
                                                       + summary.trend * ((i * (i + 1)) \div 2), 100)

C16_Witness ==
    /\ Answered /\ response.kind = "future" /\ response.state = s_assam
    /\ analyze_trends(FutureInputs[1], "rainfall_actual_mm").seasonality = 0
    /\ analyze_trends(FutureInputs[1], "rainfall_actual_mm").trend = 55000
    /\ Len(response.forecast[1]) = 24
    /\ response.forecast[1][1].value = 5650
    /\ response.forecast[1][24].value = 170100

\* A projection with a seasonality other than 0 is answered too.
SeasonalProjection ==
    /\ Answered /\ response.kind = "future" /\ response.state = s_goa
    /\ response.trend.seasonality = 275
    /\ Len(response.forecast[1]) = 60


\* A Trend summary with the three keys, each zero.
ZeroSummary(summary) ==
    /\ summary.keys = { "trend", "seasonality", "volatility" }
    /\ summary.trend = 0
    /\ summary.seasonality = 0
    /\ summary.volatility = Num(0)

\* C17: for an empty input series analyze_trends returns the zero-valued
\* Trend summary, and predict_future_values returns an empty projection
\* sequence together with the zero-valued Trend summary.
C17_EmptySeries ==
    /\ (direct.method = "analyze_trends" /\ direct.data = <<>>)
          => ZeroSummary(direct.summary)
    /\ (direct.method = "predict_future_values" /\ direct.data = <<>>)
          => /\ direct.projection.predictions = <<>>
             /\ ZeroSummary(direct.projection.trend_analysis)

\* The part of C17 the engine does keep: the zero-valued summary from
\* analyze_trends and the empty projection sequence from
\* predict_future_values.
EmptySeriesKept ==
    /\ (direct.method = "analyze_trends" /\ direct.data = <<>>)
          => ZeroSummary(direct.summary)
    /\ (direct.method = "predict_future_values" /\ direct.data = <<>>)
          => /\ direct.projection.predictions = <<>>
             /\ direct.projection.trend_analysis = EmptyDict


\* The columns the spec requires of each dataset at load time.
RequiredRainfall == { "state_name", "year_month", "rainfall_actual_mm" }

RequiredGroundwater == { "state_name", "district_name", "year_month", "gw_level_m_bgl" }

WellFormed(d) ==
    /\ d.rainfall.readable /\ RequiredRainfall \subseteq d.rainfall.columns
    /\ d.groundwater.readable /\ RequiredGroundwater \subseteq d.groundwater.columns

\* C18: if either dataset cannot be read or lacks a required column, the
\* construction of the chatbot fails: the chatbot is never ready for a
\* question over an empty or partially loaded store.
C18_FatalLoadFailure == pc # "start" => WellFormed(disk)

\* What the constructor does instead: it completes on every disk; an
\* unreadable file or a missing name or period column leaves both tables
\* empty, and a missing metric column leaves the tables loaded without it.
LoadFailureStarts ==
    (pc # "start" /\ ~WellFormed(disk))
        => \/ rainfall = EmptyFrame /\ groundwater = EmptyFrame
           \/ /\ rainfall.rows # <<>> /\ groundwater.rows # <<>>
              /\ \/ ~HasCol(rainfall, "rainfall_actual_mm")
                 \/ ~HasCol(groundwater, "gw_level_m_bgl")


\* The artifacts joblib.load cannot load.
Unloadable == { "missing", "corrupt" }

\* C19: with an artifact that cannot be loaded the constructor completes
\* with model = None; predict_groundwater returns None and does not raise
\* when there is no model and when the model's predict raises; and a text
\* not routed to the ml-prediction handler gets the answer it would get
\* with the predictor loaded.
C19_PredictorUnavailable ==
    /\ (pc # "start" /\ disk.artifact \in Unloadable) => model = "None"
    /\ (direct.method = "predict_groundwater" /\ model \in { "None", "broken" })
          => direct.prediction = NoValue /\ direct.exc = "none"
    /\ (Answered /\ handler # "ml_prediction")
          => /\ Dispatch(handler, entities, rainfall, groundwater, model)
                  = Dispatch(handler, entities, rainfall, groundwater, "regressor")
             /\ response \in Dispatch(handler, entities, rainfall, groundwater, "regressor")

\* predict_groundwater has been called on a chatbot whose artifact was a
\* file joblib.load fails on.
C19_Witness ==
    /\ disk.artifact = "corrupt" /\ model = "None"
    /\ direct.method = "predict_groundwater" /\ direct.prediction = NoValue

\* The other two cases of C19 happen: predict raises inside
\* predict_groundwater, and a text outside the ml-prediction handler is
\* answered without a predictor.
PredictRaisesInside ==
    /\ model = "broken"
    /\ direct.method = "predict_groundwater" /\ direct.prediction = NoValue

AnsweredWithoutPredictor ==
    /\ Answered /\ model = "None" /\ handler = "rainfall" /\ ~Raised
    /\ response.kind = "rainfall_recent"


\* C20: after load no step of the chatbot (an answer of generate_response
\* with its extraction and its handler, a call of analyze_trends or of
\* predict_future_values) changes the rows or the columns of the rainfall
\* or of the groundwater table.
C20_ReadOnly ==
    [][ pc # "start" => (rainfall' = rainfall /\ groundwater' = groundwater) ]_vars

\* A call of the engine on a table of the store itself, with a date column
\* of strings.
ConvertsInPlace(call) ==
    /\ call.method \in { "analyze_trends", "predict_future_values" }
    /\ call.object \in Stores /\ call.data # <<>>
    /\ call.date_col = "year_month"

\* What the chatbot keeps: every answer of generate_response, and every
\* call of the engine on a frame get_rainfall_data or get_groundwater_data
\* returned, or on a table of the store with its datetime column 'date',
\* leaves both tables as they were loaded.
StoreKept ==
    [][ (pc # "start" /\ ~ConvertsInPlace(direct'))
            => (rainfall' = rainfall /\ groundwater' = groundwater) ]_vars

\* The engine has been called on self.rainfall with date_col = 'year_month'
\* and the column is now of a datetime type.
ConvertedInPlace ==
    /\ ConvertsInPlace(direct) /\ direct.object = "self.rainfall"
    /\ "year_month" \in rainfall.datetime

\* A future answer has been given: its assignments went to new frames.
FutureAnswerKept ==
    /\ Answered /\ handler = "future_prediction" /\ response.kind = "future"
    /\ rainfall = load_data(disk).rainfall
    /\ groundwater = load_data(disk).groundwater


\* The distinct district names of the groundwater rows of a state that are
\* not blank.
DistrictsOf(state) ==
    { d \in { groundwater.rows[i].district_name :
                i \in { j \in 1..Len(groundwater.rows) :
                          groundwater.rows[j].state_name = state } } :
        Strip(d) # <<>> }

\* C21: handle_district_query for a state with n > 0 districts lists the
\* first min(n, 10) names in sorted order, gives a remaining count of n - 10
\* exactly when n > 10 and the total n, so that listed + remaining = total;
\* for n = 0 it returns the 'No Districts Found' message.
C21_DistrictListing ==
    (Answered /\ handler = "district" /\ ~Raised /\ Truthy(entities.state)) =>
        LET all == DistrictsOf(entities.state)
            n == Cardinality(all)
            listed == response.items
        IN  IF n = 0 THEN response.kind = "districts_none"
            ELSE /\ response.kind = "districts"
                 /\ Len(listed) = (IF n < 10 THEN n ELSE 10)
                 /\ \A i \in 1..Len(listed) : listed[i] \in all
                 /\ \A i, j \in 1..Len(listed) : i < j => StrLess(listed[i], listed[j])
                 /\ \A d \in all :
                        (\A i \in 1..Len(listed) : listed[i] # d)
                            => StrLess(listed[Len(listed)], d)
                 /\ response.remaining = (IF n > 10 THEN n - 10 ELSE 0)
                 /\ response.total = n
                 /\ Len(listed) + response.remaining = response.total

\* The districts of bihar have been listed: ten names, the rest counted.
C21_Witness ==
    /\ Answered /\ handler = "district" /\ entities.state = s_bihar
    /\ response.kind = "districts"
    /\ Len(response.items) = 10 /\ response.remaining = NumDistricts - 10
    /\ response.total = NumDistricts
    /\ response.items[1] = <<"w","a","r","d"," ","0","1">>

\* A state with at most ten districts, and a state without any, have been
\* asked for.
DistrictsAllListed ==
    /\ Answered /\ handler = "district" /\ entities.state = s_goa
    /\ response.kind = "districts" /\ Len(response.items) = 2
    /\ response.remaining = 0 /\ response.total = 2

DistrictsNone ==
    /\ Answered /\ handler = "district" /\ entities.state = s_goa
    /\ response.kind = "districts_none"


\* The positions, in the list of numeric substrings of the text, of the
\* values outside [2000, 2030].
OutsideYears(matches) ==
    { k \in 1..Len(matches) : ~InYearRange(ParseFloat(matches[k])) }

(* C22.  extract_entities sets number to the first numeric substring of the *)
(* text, in text order, whose value is not in [2000, 2030], and leaves it   *)
(* unset when there is none; so number is unset or outside [2000, 2030],    *)
(* and never a bare year.                                                   *)
C22_FirstNumberOutsideYears ==
    Answered =>
        LET matches == NumberFindall(lastInput, 1)
            out == OutsideYears(matches)
            first == CHOOSE k \in out : \A j \in out : k <= j
        IN  /\ out = {} => entities.number = NoNumber
            /\ out # {} => entities.number = ParseFloat(matches[first])
            /\ entities.number # NoNumber =>
                   \/ entities.number.int < 2000
                   \/ entities.number.int > 2030
                   \/ entities.number.int = 2030 /\ entities.number.frac # <<>>

\* A year comes first in the text and the amount after it is extracted.
C22_Witness ==
    /\ Answered /\ lastInput = <<"r","a","i","n"," ","2","0","2","4"," ","1","5","0","m","m">>
    /\ entities.number = Float(150) /\ entities.year = <<"2","0","2","4">>

\* Two years and nothing else: number stays unset; a decimal just above the
\* range is a number.
OnlyYears ==
    Answered /\ lastInput = <<"r","a","i","n"," ","2","0","2","4"," ","2","0","2","5">> /\ entities.number = NoNumber

AboveRange ==
    /\ Answered /\ lastInput = <<"r","a","i","n"," ","2","0","3","0",".","5">>
    /\ entities.number = [ int |-> 2030, frac |-> <<"5">> ]


\* The series of the location: the rainfall rows of the state, and the
\* groundwater rows of the state (of the district, when one was found).
LocationSeries ==
    << get_rainfall_data(rainfall, entities.state, None),
       get_groundwater_data(groundwater, entities.state, entities.district, None) >>

(* C23.  handle_future_prediction_query hands to the engine the rows of the *)
(* (up to) 36 most recent periods of the rainfall series and of the         *)
(* groundwater series of the location, whatever the order of the rows in    *)
(* the tables, and each projection starts from the latest observed period   *)
(* of its series.                                                           *)
C23_MostRecentPeriods ==
    (Answered /\ response.kind = "future") =>
        /\ \A k \in 1..2 :
               /\ { FutureInputs[k][i] : i \in 1..Len(FutureInputs[k]) }
                     = { r \in { LocationSeries[k][i] : i \in 1..Len(LocationSeries[k]) } :
                           r.year_month \in MostRecent(PeriodsOf(LocationSeries[k]), FutureRows) }
               /\ MonthIndex(response.forecast[k][1].date)
                     = MonthIndex(Anchor(LocationSeries[k])) + 1

\* What the handler hands over: the last 36 rows of each series in the
\* order of the file, and the projection starts from the latest period
\* among those rows.
LastRowsOfFile ==
    (Answered /\ response.kind = "future") =>
        \A k \in 1..2 :
            /\ FutureInputs[k]
                  = SubSeq(LocationSeries[k],
                           IF Len(LocationSeries[k]) > FutureRows
                           THEN Len(LocationSeries[k]) - FutureRows + 1 ELSE 1,
                           Len(LocationSeries[k]))
            /\ MonthIndex(response.forecast[k][1].date)
                  = MonthIndex(Anchor(FutureInputs[k])) + 1

\* The rainfall file holds 37 months of goa, the latest first, and the
\* forecast for goa has started from the month before the latest.
LatestRowDropped ==
    /\ Answered /\ response.kind = "future" /\ entities.state = s_goa
    /\ Len(LocationSeries[1]) > FutureRows
    /\ MonthIndex(response.forecast[1][1].date) = MonthIndex(Anchor(LocationSeries[1]))


\* The calendar months of the rows of a series.
CalendarMonths(rows) ==
    { ParseInt(SubSeq(rows[i].year_month, 6, 7)) : i \in 1..Len(rows) }

\* analyze_trends has returned a summary for a series that is not empty.
Analyzed ==
    direct.method = "analyze_trends" /\ direct.data # <<>> /\ direct.exc = "none"

(* C24.  For a non-empty series analyze_trends returns a seasonality and a  *)
(* volatility that are defined numbers and not negative, a trend of 0 for   *)
(* fewer than 2 points and a seasonality of 0 for fewer than 2 distinct     *)
(* calendar months; a series of one observation included.                   *)
C24_DefinedSummary ==
    Analyzed =>
        /\ direct.summary.seasonality >= 0
        /\ direct.summary.volatility.tag = "num" /\ direct.summary.volatility.v >= 0
        /\ Len(direct.data) < 2 => direct.summary.trend = 0
        /\ Cardinality(CalendarMonths(direct.data)) < 2 => direct.summary.seasonality = 0

\* What analyze_trends returns: the same, except that the volatility of a
\* series of one observation is NaN.
SummaryAsComputed ==
    Analyzed =>
        /\ direct.summary.seasonality >= 0
        /\ IF Len(direct.data) < 2
           THEN direct.summary.volatility = NaN
           ELSE direct.summary.volatility.tag = "num" /\ direct.summary.volatility.v >= 0
        /\ Len(direct.data) < 2 => direct.summary.trend = 0
        /\ Cardinality(CalendarMonths(direct.data)) < 2 => direct.summary.seasonality = 0

\* analyze_trends has been called on the one rainfall row of bihar.
OneObservation ==
    /\ Analyzed /\ Len(direct.data) = 1
    /\ direct.summary = TrendDict(0, 0, NaN)

\* Several observations of one calendar month: no seasonality, a trend and
\* a volatility.
OneCalendarMonth ==
    /\ Analyzed /\ Len(direct.data) = 3 /\ Cardinality(CalendarMonths(direct.data)) = 1
    /\ direct.summary.seasonality = 0 /\ direct.summary.trend # 0
    /\ direct.summary.volatility.tag = "num"


\* The rows of the state in its 24 most recent periods, in ascending order
\* of period: rainfall, groundwater.
TrendSeries ==
    << LET rows == get_rainfall_data(rainfall, entities.state, None)
       IN  SortByPeriod(SelectSeq(rows,
               LAMBDA r : r.year_month \in MostRecent(PeriodsOf(rows), TrendRows))),
       LET rows == get_groundwater_data(groundwater, entities.state, None, None)
       IN  SortByPeriod(SelectSeq(rows,
               LAMBDA r : r.year_month \in MostRecent(PeriodsOf(rows), TrendRows))) >>

TrendValues == << RainValues(TrendSeries[1]), GwValues(TrendSeries[2]) >>

\* The sum of the first differences of a series of values: the last value
\* less the first; the mean difference has its sign.
SumOfSteps(v) == IF Len(v) < 2 THEN 0 ELSE v[Len(v)] - v[1]

OneRowPerPeriod(rows) == Cardinality(PeriodsOf(rows)) = Len(rows)

(* C25.  handle_trend_query, for a state with rainfall and groundwater      *)
(* rows, reports for each metric the mean month-over-month difference over  *)
(* the 24 most recent periods and labels the metric rising exactly when     *)
(* that mean is positive and falling exactly when it is negative; with no   *)
(* rows for either metric it returns the 'Insufficient Data' message.       *)
C25_TrendLabels ==
    (Answered /\ handler = "trend" /\ Truthy(entities.state) /\ ~Raised) =>
        IF TrendSeries[1] = <<>> \/ TrendSeries[2] = <<>>
        THEN response.kind = "trend_insufficient"
        ELSE /\ response.kind = "trend"
             /\ (OneRowPerPeriod(TrendSeries[1]) /\ Len(TrendSeries[1]) >= 2) =>
                    response.value = Num(RoundDivSigned(100 * SumOfSteps(TrendValues[1]),
                                                        Len(TrendValues[1]) - 1))
             /\ (OneRowPerPeriod(TrendSeries[2]) /\ Len(TrendSeries[2]) >= 2) =>
                    response.value2 = Num(RoundDivSigned(100 * SumOfSteps(TrendValues[2]),
                                                         Len(TrendValues[2]) - 1))
             /\ response.rising <=> SumOfSteps(TrendValues[1]) > 0
             /\ ~response.rising <=> SumOfSteps(TrendValues[1]) < 0
             /\ response.rising2 <=> SumOfSteps(TrendValues[2]) > 0
             /\ ~response.rising2 <=> SumOfSteps(TrendValues[2]) < 0

\* The labels as the handler sets them: rising when the mean difference is
\* positive, falling otherwise, also when it is zero or NaN.
TrendLabelsAsSet ==
    (Answered /\ handler = "trend" /\ Truthy(entities.state) /\ ~Raised) =>
        IF TrendSeries[1] = <<>> \/ TrendSeries[2] = <<>>
        THEN response.kind = "trend_insufficient"
        ELSE /\ response.kind = "trend"
             /\ (OneRowPerPeriod(TrendSeries[1]) /\ Len(TrendSeries[1]) >= 2) =>
                    response.value = Num(RoundDivSigned(100 * SumOfSteps(TrendValues[1]),
                                                        Len(TrendValues[1]) - 1))
             /\ Len(TrendSeries[1]) < 2 => response.value = NaN
             /\ response.rising <=> SumOfSteps(TrendValues[1]) > 0
             /\ response.rising2 <=> SumOfSteps(TrendValues[2]) > 0

\* One rainfall row: the mean difference is NaN and the label is falling.
FallingWithoutFall ==
    /\ Answered /\ response.kind = "trend" /\ entities.state = s_bihar
    /\ response.value = NaN /\ ~response.rising


\* extract_entities found a state, a district, a year or a month.
FoundAnEntity ==
    \E k \in { "state", "district", "year", "month" } : entities[k] # None

(* C26.  The user context {state, district, year, month} of the session is  *)
(* created at session start and, after every call of generate_response      *)
(* whose extraction found an entity, holds the values of that extraction.   *)
C26_ContextFollows ==
    /\ pc # "start" => "user_context" \in session.keys
    /\ (Answered /\ FoundAnEntity) =>
           /\ session.user_context.current_state = entities.state
           /\ session.user_context.current_district = entities.district
           /\ session.user_context.current_year = entities.year
           /\ session.user_context.current_month = entities.month

\* What the session holds: the context is created with four None values
\* and stays so.
ContextNeverWritten ==
    pc # "start" =>
        /\ "user_context" \in session.keys
        /\ session.user_context = [ current_state |-> None, current_district |-> None,
                                    current_year |-> None, current_month |-> None ]

\* A question naming goa has been answered and the context names no state.
ContextStale ==
    /\ Answered /\ entities.state = s_goa
    /\ session.user_context.current_state = None


\* The three greeting key words of the claim.
ShortGreetings == { <<"h","i">>, <<"h","e","y">>, <<"h","e","l","l","o">> }

ThisGreets ==
    /\ Answered /\ lastInput = <<"i","s"," ","t","h","i","s"," ","t","h","e"," ","r","a","i","n","f","a","l","l"," ","o","f"," ","g","o","a">>
    /\ handler = "greeting"

WhichGreets ==
    /\ Answered /\ lastInput = <<"W","h","i","c","h"," ","s","t","a","t","e","s"," ","a","r","e"," ","a","v","a","i","l","a","b","l","e","?">>
    /\ handler = "greeting"


\* The answers generate_response can return for a text.
AnswersTo(text) ==
    Dispatch(Route(text), extract_entities(text, rainfall, groundwater),
             rainfall, groundwater, model)

(* C28.  After any sequence of chat inputs, quick-query presses and         *)
(* clear-chat presses, st.session_state.messages has even length and        *)
(* alternates user, assistant, each assistant entry being the answer of     *)
(* generate_response to the user entry before it.                           *)
C28_MessagesAlternate ==
    LET messages == session.messages
    IN  /\ Len(messages) % 2 = 0
        /\ \A i \in 1..Len(messages) :
               IF i % 2 = 1
               THEN messages[i].role = "user"
               ELSE /\ messages[i].role = "assistant"
                    /\ messages[i].answer \in AnswersTo(messages[i - 1].text)

\* A clear-chat press leaves the list empty.
ClearLeavesEmpty == [][ClearChat => session'.messages = <<>>]_vars

\* What display_chat_interface keeps: every assistant entry answers the
\* user entry before it, and a user entry without an assistant entry after
\* it is a question on which generate_response raised.
MessagesAsAppended ==
    LET messages == session.messages
    IN  \A i \in 1..Len(messages) :
            IF messages[i].role = "assistant"
            THEN /\ i > 1 /\ messages[i - 1].role = "user"
                 /\ messages[i].answer \in AnswersTo(messages[i - 1].text)
                 /\ messages[i].answer.exc = "none"
            ELSE /\ messages[i].role = "user"
                 /\ (i = Len(messages) \/ messages[i + 1].role = "user") =>
                        \E r \in AnswersTo(messages[i].text) : r.exc # "none"

\* A question was left without an answer and the next one was answered.
UserAfterUser ==
    /\ Len(session.messages) = 3
    /\ session.messages[1].role = "user" /\ session.messages[2].role = "user"
    /\ session.messages[3].role = "assistant"

\* Two exchanges on a well-formed store.
TwoExchanges ==
    /\ Len(session.messages) = 4
    /\ session.messages[2].role = "assistant" /\ session.messages[4].role = "assistant"
    /\ session.messages[3].text = <<"S","h","o","w"," ","g","r","o","u","n","d","w","a","t","e","r"," ","l","e","v","e","l","s"," ","i","n"," ","g","o","a",","," ","m","a","r","g","a","o">>


\* The rows of the six-month table of a forecast answer: the label, which
\* is the date of the rainfall point, and the two points shown under it.
ForecastRows ==
    LET rain == response.forecast[1]
        gw == response.forecast[2]
        n == IF Len(rain) < Len(gw) THEN Len(rain) ELSE Len(gw)
    IN  [ i \in 1..(IF n < 6 THEN n ELSE 6) |->
            [ label |-> rain[i].date, rainfall |-> rain[i], groundwater |-> gw[i] ] ]

\* The long-term row, shown for more than six months ahead.
LongTermRow ==
    LET rain == response.forecast[1]
        gw == response.forecast[2]
    IN  [ label |-> rain[Len(rain)].date, rainfall |-> rain[Len(rain)],
          groundwater |-> gw[Len(gw)] ]

(* C29.  In a forecast answer every row of the six-month table and the      *)
(* long-term row show under their period label a rainfall value and a       *)
(* groundwater value that were both projected for that period, also when    *)
(* the latest rainfall period and the latest groundwater period differ.     *)
C29_RowsOfOnePeriod ==
    (Answered /\ response.kind = "future") =>
        /\ \A i \in 1..Len(ForecastRows) :
               /\ ForecastRows[i].rainfall.date = ForecastRows[i].label
               /\ ForecastRows[i].groundwater.date = ForecastRows[i].label
        /\ response.months > 6 =>
               /\ LongTermRow.rainfall.date = LongTermRow.label
               /\ LongTermRow.groundwater.date = LongTermRow.label

\* What the rows show: the i-th point of each projection under the period
\* of the rainfall point, so the groundwater value is the one projected for
\* the labelled period exactly when both projections start from one period.
RowsPairedByPosition ==
    (Answered /\ response.kind = "future") =>
        /\ \A i \in 1..Len(ForecastRows) :
               /\ ForecastRows[i].rainfall.date = ForecastRows[i].label
               /\ MonthIndex(ForecastRows[i].rainfall.date)
                     = MonthIndex(Anchor(FutureInputs[1])) + i
               /\ MonthIndex(ForecastRows[i].groundwater.date)
                     = MonthIndex(Anchor(FutureInputs[2])) + i
        /\ response.months > 6 =>
               /\ MonthIndex(LongTermRow.rainfall.date)
                     = MonthIndex(Anchor(FutureInputs[1])) + response.months
               /\ MonthIndex(LongTermRow.groundwater.date)
                     = MonthIndex(Anchor(FutureInputs[2])) + response.months

\* A forecast for goa, whose latest rainfall period is later than its
\* latest groundwater period: the first row is labelled with one month and
\* shows the groundwater value projected for another.
GroundwaterOfAnotherPeriod ==
    /\ Answered /\ response.kind = "future" /\ entities.state = s_goa
    /\ Anchor(FutureInputs[1]) # Anchor(FutureInputs[2])
    /\ ForecastRows[1].groundwater.date # ForecastRows[1].label

\* A forecast whose two projections start from one period.
RowsOfOnePeriod ==
    /\ Answered /\ response.kind = "future"
    /\ Anchor(FutureInputs[1]) = Anchor(FutureInputs[2])
    /\ \A i \in 1..Len(ForecastRows) :
           ForecastRows[i].groundwater.date = ForecastRows[i].label


\* The non-empty state names of the groundwater table that no rainfall row
\* carries.
GroundwaterOnlyStates ==
    { n \in { groundwater.rows[i].state_name : i \in 1..Len(groundwater.rows) } :
        n # <<>> /\ n \notin StateNames }

\* The text names state s and no other state name of either table.
NamesOnly(s) ==
    /\ Contains(Lower(lastInput), s)
    /\ \A n \in (StateNames \cup GroundwaterOnlyStates) \ { s } :
           ~Contains(Lower(lastInput), n)

DataHandlers == { "groundwater", "district", "trend", "ml_prediction" }

(* C30, as claimed.  The extracted state is a non-empty state name of the   *)
(* rainfall table or None; for a state with groundwater rows and no         *)
(* rainfall row, a groundwater, district, trend or prediction query naming  *)
(* only that state extracts no state and no district and is answered by the *)
(* usage prompt of its handler.                                             *)
C30_UsagePromptAlways ==
    Answered =>
        /\ entities.state \in StateNames \cup { None }
        /\ \A s \in GroundwaterOnlyStates :
               (NamesOnly(s) /\ handler \in DataHandlers) =>
                   /\ entities.state = None /\ entities.district = None
                   /\ response.kind = UsageOf(handler)

(* C30, amended.  The same, except that a prediction query is answered by   *)
(* the model-unavailable message when no predictor is loaded, since         *)
(* handle_prediction_query tests the predictor before the entities.         *)
C30_RainfallVocabulary ==
    Answered =>
        /\ entities.state \in StateNames \cup { None }
        /\ Truthy(entities.state) = (StateNamesIn(Lower(lastInput)) # {})
        /\ \A s \in GroundwaterOnlyStates :
               (NamesOnly(s) /\ handler \in DataHandlers) =>
                   /\ entities.state = None /\ entities.district = None
                   /\ ~Raised
                   /\ response.kind =
                          IF handler = "ml_prediction" /\ model = "None"
                          THEN "model_unavailable" ELSE UsageOf(handler)

\* A groundwater question naming kerala, which has groundwater rows and no
\* rainfall row, has got the usage prompt.
C30_Witness ==
    /\ Answered /\ s_kerala \in GroundwaterOnlyStates /\ NamesOnly(s_kerala)
    /\ handler = "groundwater"
    /\ entities.state = None /\ response.kind = "groundwater_usage"

\* A prediction question naming kerala with a predictor loaded.
KeralaPredictionUsage ==
    /\ Answered /\ s_kerala \in GroundwaterOnlyStates /\ NamesOnly(s_kerala)
    /\ handler = "ml_prediction" /\ model # "None"
    /\ response.kind = "prediction_usage"

====
